---- MODULE Spec2Model ----
(***************************************************************************)
(* A model of the proof-of-work identity engine of edge/utils              *)
(* (src/lib/IdentityLib/identity.d.ts, which holds identity.js and its     *)
(* tests) and of the wallet primitives it calls                            *)
(* (src/lib/WalletUtils/wallet.js).                                        *)
(*                                                                         *)
(* Cryptography is modelled symbolically.  SHA-256, Keccak-256 and         *)
(* Argon2id are collision-free: a digest is the term that names its input. *)
(* A signature string is the term that names the key and the input it was  *)
(* signed with, the number of '0' characters it starts with, the recovery  *)
(* parameter it needs, and the characters that follow its first 128        *)
(* (r || s).  The signer's choice of nonce, and so the leading zeros and   *)
(* the recovery parameter, is a nondeterministic choice.                   *)
(*                                                                         *)
(* JavaScript values are records with a type tag t, so that the coercions  *)
(* the code relies on (truthiness, string concatenation, parseInt) are     *)
(* computed and not assumed.                                               *)
(***************************************************************************)
EXTENDS Integers, Sequences, FiniteSets, TLC

VARIABLES
    id,         \* the Identity object generateIdentity returned, Null before
    frozenS,    \* Object.freeze(id.s) was applied
    frozenC,    \* Object.freeze(id.c) was applied
    gen,        \* the generateIdentity call: its position and its locals
    add,        \* per task, its addChallenge call: its position and its locals
    arg,        \* the value handed to verifyIdentity
    base,       \* the public identity arg was made from
    result,     \* what verifyIdentity(arg) settled to
    dIn,        \* the challenge index calculateDifficulty is applied to
    dOut,       \* what calculateDifficulty returned
    call,       \* the wallet function called, with its arguments
    ret,        \* what that call returned
    ver,        \* the verifyIdentity call that runs beside the engine: position and locals
    pub,        \* the object a getPublicIdentity() call returned to its caller
    mine        \* a mineSignature call taken by itself: arguments, position and locals

vars == <<id, frozenS, frozenC, gen, add, arg, base, result, dIn, dOut, call, ret, ver, pub, mine>>
engineVars == <<id, frozenS, frozenC, gen, add>>
verifyVars == <<arg, base, result>>
diffVars == <<dIn, dOut>>
walletVars == <<call, ret>>

(***************************************************************************)
(* Bounds of the model.                                                    *)
(***************************************************************************)
MaxChallenges == 2      \* largest argument of generateIdentity
MaxLinks == 4           \* longest chain addChallenge may build
MaxSolution == 1        \* the miner's counter runs over 0..MaxSolution
MaxIndex == 100         \* challenge indices the difficulty schedule is applied to

Keys == {"k1", "k2"}    \* the private keys a wallet can be generated with
DrawnKey == CHOOSE k \in Keys : TRUE   \* keys are interchangeable: the one a run draws
NoKey == "none"         \* owner of a public key recovered from data no key of Keys signed
Timestamps == {1000}    \* values of Date.now()
MaxZeros == 4           \* leading '0' characters are counted up to the largest difficulty
RecoveryParams == {0, 1}

\* The nonces the signer draws, each by what it decides of the signature: the number
\* of '0' characters r starts with and the recovery parameter (the parity of R's y)
Nonces == { [zeros |-> z, v |-> z % 2] : z \in 0..MaxZeros }

Min(a, b) == IF a < b THEN a ELSE b
Max(a, b) == IF a > b THEN a ELSE b

(***************************************************************************)
(* JavaScript values.                                                      *)
(***************************************************************************)
Undefined == [t |-> "undefined"]
Null == [t |-> "null"]
Num(n) == [t |-> "number", cls |-> "int", v |-> n]
NaN == [t |-> "number", cls |-> "NaN", v |-> 0]
Infinity == [t |-> "number", cls |-> "Infinity", v |-> 0]
Half(n) == [t |-> "number", cls |-> "half", v |-> n]     \* the number n + 0.5
Str(chars) == [t |-> "chars", chars |-> chars]           \* a string, by its characters
Array(items) == [t |-> "array", items |-> items]

IsString(x) == x.t \in {"chars", "sig", "address"}

Digits == <<"0", "1", "2", "3", "4", "5", "6", "7", "8", "9">>
HexDigits == Digits \o <<"a", "b", "c", "d", "e", "f">>

RECURSIVE Decimal(_)
\* Number.prototype.toString for a non-negative integer
Decimal(n) ==
    IF n < 10 THEN <<Digits[n + 1]>> ELSE Decimal(n \div 10) \o <<Digits[(n % 10) + 1]>>

\* The characters of JSToString(x), as string concatenation and template literals compute it
JSToString(x) ==
    CASE x.t = "undefined" -> <<"u", "n", "d", "e", "f", "i", "n", "e", "d">>
      [] x.t = "null" -> <<"n", "u", "l", "l">>
      [] x.t = "number" /\ x.cls = "NaN" -> <<"N", "a", "N">>
      [] x.t = "number" /\ x.cls = "Infinity" -> <<"I", "n", "f", "i", "n", "i", "t", "y">>
      [] x.t = "number" /\ x.cls = "half" ->
            (IF x.v < 0 THEN <<"-">> \o Decimal(-x.v - 1) ELSE Decimal(x.v)) \o <<".", "5">>
      [] x.t = "number" /\ x.cls = "int" ->
            IF x.v < 0 THEN <<"-">> \o Decimal(-x.v) ELSE Decimal(x.v)
      [] x.t = "chars" -> x.chars
      [] OTHER -> <<"[", "o", "b", "j", "e", "c", "t", "]">>

\* ToBoolean(x), as the ! operator computes it
Truthy(x) ==
    CASE x.t \in {"undefined", "null"} -> FALSE
      [] x.t = "number" -> x.cls \in {"Infinity", "half"} \/ (x.cls = "int" /\ x.v # 0)
      [] x.t = "chars" -> Len(x.chars) > 0
      [] OTHER -> TRUE

HexVal(ch) == (CHOOSE k \in 1..16 : HexDigits[k] = ch) - 1
IsHexChar(ch) == \E k \in 1..16 : HexDigits[k] = ch

\* parseInt(chars, 16) of at most two characters; -1 stands for NaN
ParseInt16(chars) ==
    IF Len(chars) = 0 \/ ~IsHexChar(chars[1]) THEN -1
    ELSE IF Len(chars) = 1 THEN HexVal(chars[1])
    ELSE IF chars[1] = "0" /\ chars[2] = "x" THEN -1
    ELSE IF ~IsHexChar(chars[2]) THEN HexVal(chars[1])
    ELSE 16 * HexVal(chars[1]) + HexVal(chars[2])

\* n.toString(16).padStart(2, '0') for n < 16
Hex2(n) == <<"0", HexDigits[n + 1]>>

(***************************************************************************)
(* Difficulty schedule.                                                    *)
(***************************************************************************)
TimesPointFour_below(challenge) ==
    IF challenge > 0 /\ (challenge * 2) % 5 = 0
    THEN [whole |-> ((challenge * 2) \div 5) - 1, fifths |-> 4]
    ELSE [whole |-> (challenge * 2) \div 5, fifths |-> (challenge * 2) % 5]

\* The double challenge * 0.4.  The double 0.4 is (2 + 2^-53) / 5, so the product is
\* whole + fifths / 5 plus an excess below one unit in the last place: it rounds to
\* whole when fifths = 0 and stays strictly between whole and whole + 1 otherwise.
TimesPointFour(challenge) == [whole |-> (challenge * 2) \div 5, fifths |-> (challenge * 2) % 5]

MathFloor(x) == x.whole

calculateDifficulty_clamp3(challenge) ==
    LET value == 2 + MathFloor(TimesPointFour(challenge))
    IN  Min(Max(value, 2), 3)

calculateDifficulty(challenge) ==
    LET value == 2 + MathFloor(TimesPointFour(challenge))
    IN  Min(Max(value, 2), 4)

(***************************************************************************)
(* Wallet primitives.                                                      *)
(***************************************************************************)
\* ec.keyFromPrivate(privateKey, 'hex').getPublic(true, 'hex')
privateKeyToPublicKey(privateKey) == [t |-> "pubkey", key |-> privateKey]

\* xe_ + the checksummed last 40 hex characters of keccak256(publicKey)
publicKeyToChecksumAddress(publicKey) == [t |-> "address", key |-> publicKey.key]

privateKeyToChecksumAddress(privateKey) ==
    publicKeyToChecksumAddress(privateKeyToPublicKey(privateKey))

\* The wallet generateWallet returns when ec.genKeyPair() draws privateKey
generateWallet(privateKey) ==
    [privateKey |-> privateKey,
     publicKey |-> privateKeyToPublicKey(privateKey),
     address |-> publicKeyToChecksumAddress(privateKeyToPublicKey(privateKey))]

\* ec.keyFromPrivate(privateKey) reads a string in base 16 whether 'hex' is passed
\* or not, so the restored public key is privateKeyToPublicKey(privateKey)
restoreWalletFromPrivateKey(privateKey) ==
    [privateKey |-> privateKey,
     publicKey |-> privateKeyToPublicKey(privateKey),
     address |-> publicKeyToChecksumAddress(privateKeyToPublicKey(privateKey))]

generateSignature_otherParam(privateKey, msg) ==
    { [t |-> "sig", key |-> privateKey, input |-> msg, zeros |-> k.zeros, v |-> k.v,
       tail |-> Hex2(1 - k.v)] : k \in Nonces }

\* The signature strings generateSignature(privateKey, msg) can return: r || s over
\* SHA256(msg), r starting with `zeros` '0' characters, then the recovery parameter
\* as two hex digits.
generateSignature(privateKey, msg) ==
    { [t |-> "sig", key |-> privateKey, input |-> msg, zeros |-> k.zeros, v |-> k.v,
       tail |-> Hex2(k.v)] : k \in Nonces }

\* signature.slice(128, 130)
SliceRecovery(signature) ==
    IF signature.t = "sig" THEN SubSeq(signature.tail, 1, Min(2, Len(signature.tail)))
    ELSE IF signature.t = "chars" THEN SubSeq(signature.chars, 129, Min(130, Len(signature.chars)))
    ELSE <<>>

Throw == [t |-> "throw"]
True == [t |-> "boolean", v |-> TRUE]
False == [t |-> "boolean", v |-> FALSE]

\* recoverPublicKeyFromSignedMessage: the public key, or Throw.  ec.recoverPubKey
\* asserts that the recovery parameter has two bits at most, finds no second key
\* candidate for parameters 2 and 3, and otherwise returns the one point that
\* (digest, r, s, parameter) determine: the signer's key when all four are the
\* signer's, and a point that belongs to no wallet otherwise.
recoverPublicKeyFromSignedMessage(msg, signature) ==
    IF ~IsString(signature) THEN Throw
    ELSE LET recoveryParam == ParseInt16(SliceRecovery(signature))
         IN  IF recoveryParam \notin 0..3 THEN Throw
             ELSE IF recoveryParam \in 2..3 THEN Throw
             ELSE IF signature.t = "sig" /\ signature.input = msg /\ signature.v = recoveryParam
                  THEN privateKeyToPublicKey(signature.key)
                  ELSE [t |-> "pubkey", key |-> NoKey]

recoverAddressFromSignedMessage(msg, signature) ==
    LET publicKey == recoverPublicKeyFromSignedMessage(msg, signature)
    IN  IF publicKey = Throw THEN Throw ELSE publicKeyToChecksumAddress(publicKey)

verifySignatureAddress_anyAddress(msg, signature, address) ==
    LET publicKey == recoverPublicKeyFromSignedMessage(msg, signature)
    IN  IF publicKey = Throw THEN Throw ELSE True

\* verifySignatureAddress: True, False or Throw
verifySignatureAddress(msg, signature, address) ==
    LET publicKey == recoverPublicKeyFromSignedMessage(msg, signature)
    IN  IF publicKey = Throw THEN Throw
        ELSE IF address = publicKeyToChecksumAddress(publicKey) THEN True ELSE False

(***************************************************************************)
(* Identity engine: pure parts.                                            *)
(***************************************************************************)
\* `xe-challenge-${challenge}`
Salt(challenge) == <<"xe-challenge-">> \o Decimal(challenge)

\* The 32 bytes argon2.hash(input, {salt, ...}) returns
argon2idHash(input, salt) == [t |-> "seed", input |-> input, salt |-> salt]

\* seedHex + solution: the seed's 64 hex characters, then ToString(solution)
SignatureInput(seed, solution) == [t |-> "input", seed |-> seed, solution |-> JSToString(solution)]

\* `${address}:${timestamp}`
FirstMessage(address, timestamp) ==
    [t |-> "message0",
     address |-> IF IsString(address) THEN address ELSE Str(JSToString(address)),
     timestamp |-> JSToString(timestamp)]

\* signature.startsWith('0'.repeat(difficulty)), for a string
StartsWithZeros(signature, difficulty) ==
    CASE signature.t = "sig" -> signature.zeros >= difficulty
      [] signature.t = "chars" ->
            /\ Len(signature.chars) >= difficulty
            /\ \A k \in 1..difficulty : signature.chars[k] = "0"
      [] OTHER -> FALSE

mineSignature_anyPrefix(privateKey, message, difficulty, challenge) ==
    LET seed == argon2idHash(message, Salt(challenge))
    IN  UNION { { [signature |-> g, solution |-> Num(k)] :
                    g \in generateSignature(privateKey, SignatureInput(seed, Num(k))) } :
                k \in 0..MaxSolution }

\* The pairs mineSignature can return: the first solution, counting from 0, whose
\* signature starts with the target; the signer makes every earlier attempt fail.
mineSignature(privateKey, message, difficulty, challenge) ==
    LET seed == argon2idHash(message, Salt(challenge))
    IN  UNION { { [signature |-> g, solution |-> Num(k)] :
                    g \in { h \in generateSignature(privateKey, SignatureInput(seed, Num(k))) :
                              StartsWithZeros(h, difficulty) } } :
                k \in 0..MaxSolution }

\* x.length; -1 stands for undefined
GetLength(x) ==
    CASE x.t = "array" -> Len(x.items)
      [] x.t = "chars" -> Len(x.chars)
      [] OTHER -> -1

\* x[i]
GetIndex(x, i) ==
    CASE x.t = "array" /\ i + 1 \in 1..Len(x.items) -> x.items[i + 1]
      [] x.t = "chars" /\ i + 1 \in 1..Len(x.chars) -> Str(<<x.chars[i + 1]>>)
      [] OTHER -> Undefined

\* x[name] for a public property name; #privateKey is not one
GetField(x, name) ==
    IF x.t \in {"object", "Identity"} /\ name \in DOMAIN x /\ name # "privateKey"
    THEN x[name] ELSE Undefined

RECURSIVE VerifyLoop(_, _, _, _, _, _, _)
\* The for loop of verifyIdentity from index i on: True, False or Throw.
\* argonFault is the set of indices at which argon2 fails.
VerifyLoop(address, timestamp, s, c, challenges, i, argonFault) ==
    IF ~(i < challenges) THEN True
    ELSE
      LET signature == GetIndex(s, i)
          solution == GetIndex(c, i)
          difficulty == calculateDifficulty(i)
          message == IF i = 0 THEN FirstMessage(address, timestamp) ELSE GetIndex(s, i - 1)
          seed == argon2idHash(message, Salt(i))
          signatureInput == SignatureInput(seed, solution)
          verified == verifySignatureAddress(signatureInput, signature, address)
      IN  IF ~IsString(signature) THEN Throw
          ELSE IF ~StartsWithZeros(signature, difficulty) THEN False
          ELSE IF i \in argonFault THEN Throw
          ELSE IF verified = Throw THEN Throw
          ELSE IF verified = False THEN False
          ELSE VerifyLoop(address, timestamp, s, c, challenges, i + 1, argonFault)

VerifyBody_minTwo(identity, argonFault) ==
    IF identity.t \in {"null", "undefined"} THEN Throw
    ELSE
      LET address == GetField(identity, "address")
          timestamp == GetField(identity, "timestamp")
          s == GetField(identity, "s")
          c == GetField(identity, "c")
      IN  IF s.t \in {"null", "undefined"} THEN Throw
          ELSE IF \/ ~Truthy(s) \/ ~Truthy(c) \/ ~Truthy(timestamp)
                  \/ GetLength(s) # GetLength(c) \/ GetLength(s) <= 1
               THEN False
          ELSE VerifyLoop(address, timestamp, s, c, GetLength(s), 0, argonFault)

\* The body of verifyIdentity's try block: True, False or Throw
VerifyBody(identity, argonFault) ==
    IF identity.t \in {"null", "undefined"} THEN Throw
    ELSE
      LET address == GetField(identity, "address")
          timestamp == GetField(identity, "timestamp")
          s == GetField(identity, "s")
          c == GetField(identity, "c")
      IN  IF s.t \in {"null", "undefined"} THEN Throw
          ELSE IF \/ ~Truthy(s) \/ ~Truthy(c) \/ ~Truthy(timestamp)
                  \/ GetLength(s) # GetLength(c) \/ GetLength(s) = 0
               THEN False
          ELSE VerifyLoop(address, timestamp, s, c, GetLength(s), 0, argonFault)

verifyIdentity_nocatch(identity, argonFault) == VerifyBody(identity, argonFault)

\* What the promise verifyIdentity returns settles to: True, False, or Throw when
\* it rejects
verifyIdentity(identity, argonFault) ==
    IF VerifyBody(identity, argonFault) = Throw THEN False ELSE VerifyBody(identity, argonFault)

NoFault == {}

\* 'fake', the string the tests put in place of a signature
Fake == Str(<<"f", "a", "k", "e">>)

(***************************************************************************)
(* Identity engine: the asynchronous operations.  An await of argon2 is    *)
(* the only suspension point; what runs between two awaits is one step.    *)
(***************************************************************************)
Tasks == {"t1", "t2"}
Caller == CHOOSE t \in Tasks : TRUE   \* the task that makes the calls when each is awaited

\* new Identity(privateKey, address, timestamp, s, c)
Identity(privateKey, address, timestamp, s, c) ==
    [t |-> "Identity", privateKey |-> privateKey, address |-> address,
     timestamp |-> timestamp, s |-> Array(s), c |-> Array(c)]

getPublicIdentity_withKey(this) ==
    [t |-> "object", privateKey |-> this.privateKey, address |-> this.address,
     timestamp |-> this.timestamp, s |-> Array(this.s.items), c |-> Array(this.c.items)]

getPublicIdentity_sameArrays(this) ==
    [t |-> "object", address |-> this.address, timestamp |-> this.timestamp,
     s |-> [t |-> "ref", to |-> "s"], c |-> [t |-> "ref", to |-> "c"]]

\* Identity.getPublicIdentity
getPublicIdentity(this) ==
    [t |-> "object", address |-> this.address, timestamp |-> this.timestamp,
     s |-> Array(this.s.items), c |-> Array(this.c.items)]

\* addChallenge was not called yet
NeverAdded == \A t \in Tasks : add[t].pc = "idle"

\* Identity.getPrivateKey
getPrivateKey(this) == this.privateKey

\* Identity.toJSON, which JSON.stringify calls
toJSON(this) == getPublicIdentity(this)

\* Object.keys(x): the type tag of the model is no property
ObjectKeys(x) == DOMAIN x \ {"t"}

InFlight == { t \in Tasks : add[t].pc = "argon" }

Init ==
    /\ id = Null
    /\ frozenS = FALSE
    /\ frozenC = FALSE
    /\ gen = [pc |-> "idle"]
    /\ add = [t \in Tasks |-> [pc |-> "idle"]]
    /\ arg = Undefined
    /\ base = Undefined
    /\ result = Undefined
    /\ dIn = 0
    /\ dOut = 0
    /\ call = [op |-> "none"]
    /\ ret = Undefined
    /\ ver = [pc |-> "idle"]
    /\ pub = Undefined
    /\ mine = [pc |-> "idle"]

\* generateIdentity(challenges) up to its first await; with challenges = 0 the
\* loop is skipped and the Identity is returned at once
GenerateIdentityCall(challenges, privateKey, now) ==
    /\ gen.pc \in {"idle", "rejected"}
    /\ id = Null
    /\ LET wallet == generateWallet(privateKey)
           timestamp == Num(now)
       IN  IF 0 < challenges
           THEN /\ gen' = [pc |-> "argon", challenges |-> challenges, wallet |-> wallet,
                           timestamp |-> timestamp, s |-> <<>>, c |-> <<>>, i |-> 0,
                           message |-> FirstMessage(wallet.address, timestamp),
                           difficulty |-> calculateDifficulty(0), hashes |-> 1]
                /\ id' = id
           ELSE /\ gen' = [pc |-> "resolved", challenges |-> challenges, hashes |-> 0]
                /\ id' = Identity(wallet.privateKey, wallet.address, timestamp, <<>>, <<>>)
    /\ UNCHANGED <<frozenS, frozenC, add>>

GenerateIdentityResume_hashPerAttempt ==
    /\ gen.pc = "argon"
    /\ \E proof \in mineSignature(gen.wallet.privateKey, gen.message, gen.difficulty, gen.i) :
          LET s == Append(gen.s, proof.signature)
              c == Append(gen.c, proof.solution)
              i == gen.i + 1
          IN  IF i < gen.challenges
              THEN /\ gen' = [gen EXCEPT !.s = s, !.c = c, !.i = i,
                                         !.message = s[i],
                                         !.difficulty = calculateDifficulty(i),
                                         !.hashes = @ + proof.solution.v + 1]
                   /\ id' = id
              ELSE /\ gen' = [pc |-> "resolved", challenges |-> gen.challenges,
                                   hashes |-> gen.hashes + proof.solution.v]
                   /\ id' = Identity(gen.wallet.privateKey, gen.wallet.address,
                                      gen.timestamp, s, c)
    /\ UNCHANGED <<frozenS, frozenC, add>>

\* generateIdentity from the await of mineSignature's argon2 to the next await,.
\* or to the return.  hashes counts the argon2idHash calls made so far.
GenerateIdentityResume ==
    /\ gen.pc = "argon"
    /\ \E proof \in mineSignature(gen.wallet.privateKey, gen.message, gen.difficulty, gen.i) :
          LET s == Append(gen.s, proof.signature)
              c == Append(gen.c, proof.solution)
              i == gen.i + 1
          IN  IF i < gen.challenges
              THEN /\ gen' = [gen EXCEPT !.s = s, !.c = c, !.i = i,
                                         !.message = s[i],
                                         !.difficulty = calculateDifficulty(i),
                                         !.hashes = @ + 1]
                   /\ id' = id
              ELSE /\ gen' = [pc |-> "resolved", challenges |-> gen.challenges,
                                   hashes |-> gen.hashes]
                   /\ id' = Identity(gen.wallet.privateKey, gen.wallet.address,
                                      gen.timestamp, s, c)
    /\ UNCHANGED <<frozenS, frozenC, add>>

\* argon2 fails (allocation): generateIdentity rejects and returns no Identity
GenerateIdentityArgonFails ==
    /\ gen.pc = "argon"
    /\ gen' = [pc |-> "rejected"]
    /\ UNCHANGED <<id, frozenS, frozenC, add>>

\* `this` in a method of the Identity: a reference to the object the call was made on
This == [t |-> "ref", to |-> "this"]

AddChallengeCall_firstMessage(t) ==
    /\ id # Null
    /\ add[t].pc # "argon"
    /\ Len(id.s.items) + Cardinality(InFlight) < MaxLinks
    /\ LET nextIndex == Len(id.s.items)
           difficulty == calculateDifficulty(nextIndex)
           message == FirstMessage(id.address, id.timestamp)
       IN  add' = [add EXCEPT ![t] = [pc |-> "argon", nextIndex |-> nextIndex,
                                      difficulty |-> difficulty, message |-> message,
                                      hashes |-> 1]]
    /\ UNCHANGED <<id, frozenS, frozenC, gen>>

AddChallengeCall_difficultyOfFirst(t) ==
    /\ id # Null
    /\ add[t].pc # "argon"
    /\ Len(id.s.items) + Cardinality(InFlight) < MaxLinks
    /\ LET nextIndex == Len(id.s.items)
           difficulty == calculateDifficulty(0)
           message == IF nextIndex = 0 THEN FirstMessage(id.address, id.timestamp)
                      ELSE id.s.items[Len(id.s.items)]
       IN  add' = [add EXCEPT ![t] = [pc |-> "argon", nextIndex |-> nextIndex,
                                      difficulty |-> difficulty, message |-> message,
                                      hashes |-> 1]]
    /\ UNCHANGED <<id, frozenS, frozenC, gen>>

\* id.addChallenge() up to the await of mineSignature's argon2
AddChallengeCall(t) ==
    /\ id # Null
    /\ add[t].pc # "argon"
    /\ Len(id.s.items) + Cardinality(InFlight) < MaxLinks
    /\ LET nextIndex == Len(id.s.items)
           difficulty == calculateDifficulty(nextIndex)
           message == IF nextIndex = 0 THEN FirstMessage(id.address, id.timestamp)
                      ELSE id.s.items[Len(id.s.items)]
       IN  add' = [add EXCEPT ![t] = [pc |-> "argon", nextIndex |-> nextIndex,
                                      difficulty |-> difficulty, message |-> message,
                                      hashes |-> 1]]
    /\ UNCHANGED <<id, frozenS, frozenC, gen>>

AddChallengeResume_unshift(t) ==
    /\ add[t].pc = "argon"
    /\ \E proof \in mineSignature(id.privateKey, add[t].message, add[t].difficulty,
                                   add[t].nextIndex) :
          IF frozenS
          THEN /\ add' = [add EXCEPT ![t] = [pc |-> "rejected"]]
               /\ id' = id
          ELSE IF frozenC
          THEN /\ add' = [add EXCEPT ![t] = [pc |-> "rejected"]]
               /\ id' = [id EXCEPT !.s = Array(<<proof.signature>> \o id.s.items)]
          ELSE /\ add' = [add EXCEPT ![t] = [pc |-> "resolved", value |-> This,
                                                 hashes |-> add[t].hashes]]
               /\ id' = [id EXCEPT !.s = Array(<<proof.signature>> \o id.s.items),
                                    !.c = Array(<<proof.solution>> \o id.c.items)]
    /\ UNCHANGED <<frozenS, frozenC, gen>>

AddChallengeResume_silentPush(t) ==
    /\ add[t].pc = "argon"
    /\ \E proof \in mineSignature(id.privateKey, add[t].message, add[t].difficulty,
                                   add[t].nextIndex) :
          /\ add' = [add EXCEPT ![t] = [pc |-> "resolved", value |-> This,
                                                 hashes |-> add[t].hashes]]
          /\ id' = [id EXCEPT !.s = IF frozenS THEN @ ELSE Array(Append(@.items, proof.signature)),
                               !.c = IF frozenC THEN @ ELSE Array(Append(@.items, proof.solution))]
    /\ UNCHANGED <<frozenS, frozenC, gen>>

\* addChallenge from the await to its end: the mining loop, this.s.push, this.c.push.
\* push throws on a frozen array.
AddChallengeResume(t) ==
    /\ add[t].pc = "argon"
    /\ \E proof \in mineSignature(id.privateKey, add[t].message, add[t].difficulty,
                                   add[t].nextIndex) :
          IF frozenS
          THEN /\ add' = [add EXCEPT ![t] = [pc |-> "rejected"]]
               /\ id' = id
          ELSE IF frozenC
          THEN /\ add' = [add EXCEPT ![t] = [pc |-> "rejected"]]
               /\ id' = [id EXCEPT !.s = Array(Append(id.s.items, proof.signature))]
          ELSE /\ add' = [add EXCEPT ![t] = [pc |-> "resolved", value |-> This,
                                                 hashes |-> add[t].hashes]]
               /\ id' = [id EXCEPT !.s = Array(Append(id.s.items, proof.signature)),
                                    !.c = Array(Append(id.c.items, proof.solution))]
    /\ UNCHANGED <<frozenS, frozenC, gen>>

\* argon2 fails (allocation): addChallenge rejects before it mined anything
AddChallengeArgonFails(t) ==
    /\ add[t].pc = "argon"
    /\ add' = [add EXCEPT ![t] = [pc |-> "rejected"]]
    /\ UNCHANGED <<id, frozenS, frozenC, gen>>

\* The owner calls Object.freeze(id.s)
FreezeS ==
    /\ id # Null
    /\ ~frozenS
    /\ frozenS' = TRUE
    /\ UNCHANGED <<id, frozenC, gen, add>>

\* The owner calls Object.freeze(id.c)
FreezeC ==
    /\ id # Null
    /\ ~frozenC
    /\ frozenC' = TRUE
    /\ UNCHANGED <<id, frozenS, gen, add>>

Next ==
    \/ \E challenges \in 0..MaxChallenges, privateKey \in Keys, now \in Timestamps :
          GenerateIdentityCall(challenges, privateKey, now) /\ UNCHANGED <<verifyVars, diffVars, walletVars, ver, pub, mine>>
    \/ GenerateIdentityResume /\ UNCHANGED <<verifyVars, diffVars, walletVars, ver, pub, mine>>
    \/ GenerateIdentityArgonFails /\ UNCHANGED <<verifyVars, diffVars, walletVars, ver, pub, mine>>
    \/ \E t \in Tasks : AddChallengeCall(t) /\ UNCHANGED <<verifyVars, diffVars, walletVars, ver, pub, mine>>
    \/ \E t \in Tasks : AddChallengeResume(t) /\ UNCHANGED <<verifyVars, diffVars, walletVars, ver, pub, mine>>
    \/ \E t \in Tasks : AddChallengeArgonFails(t) /\ UNCHANGED <<verifyVars, diffVars, walletVars, ver, pub, mine>>
    \/ FreezeS /\ UNCHANGED <<verifyVars, diffVars, walletVars, ver, pub, mine>>
    \/ FreezeC /\ UNCHANGED <<verifyVars, diffVars, walletVars, ver, pub, mine>>

Spec == Init /\ [][Next]_vars

(***************************************************************************)
(* The engine with every call awaited before the next one is made, and no  *)
(* array frozen.                                                           *)
(***************************************************************************)
NextSeq ==
    \/ \E challenges \in 0..MaxChallenges, privateKey \in {DrawnKey}, now \in Timestamps :
          GenerateIdentityCall(challenges, privateKey, now) /\ UNCHANGED <<verifyVars, diffVars, walletVars, ver, pub, mine>>
    \/ GenerateIdentityResume /\ UNCHANGED <<verifyVars, diffVars, walletVars, ver, pub, mine>>
    \/ GenerateIdentityArgonFails /\ UNCHANGED <<verifyVars, diffVars, walletVars, ver, pub, mine>>
    \/ \E t \in {Caller} :
          InFlight = {} /\ AddChallengeCall(t) /\ UNCHANGED <<verifyVars, diffVars, walletVars, ver, pub, mine>>
    \/ \E t \in {Caller} : AddChallengeResume(t) /\ UNCHANGED <<verifyVars, diffVars, walletVars, ver, pub, mine>>
    \/ \E t \in {Caller} : AddChallengeArgonFails(t) /\ UNCHANGED <<verifyVars, diffVars, walletVars, ver, pub, mine>>

SpecSeq == Init /\ [][NextSeq]_vars

(***************************************************************************)
(* One verifyIdentity(id) call running beside generateIdentity and one      *)
(* addChallenge.  The call keeps references to the arrays of the Identity,  *)
(* so what it reads after an await is what the arrays hold then; argon2     *)
(* resolves.                                                               *)
(***************************************************************************)
\* verifyIdentity returns v.  The record keeps s.length at the return, the public
\* copy of the identity as it was at the call, and the indices argon2idHash was
\* called for, in the order of the calls, for the statement of claims.
Done(locals, v) ==
    [pc |-> "done", v |-> v, challenges |-> locals.challenges,
     length |-> GetLength(id.s), snapshot |-> locals.snapshot, hashed |-> locals.hashed]

VerifyFrom_hashFirst(locals, i) ==
    IF ~(i < locals.challenges) THEN Done(locals, True)
    ELSE
      LET signature == GetIndex(id.s, i)
          solution == GetIndex(id.c, i)
          difficulty == calculateDifficulty(i)
          message == IF i = 0 THEN FirstMessage(locals.address, locals.timestamp)
                     ELSE GetIndex(id.s, i - 1)
      IN  IF ~IsString(signature) THEN Done(locals, False)
          ELSE IF ~StartsWithZeros(signature, difficulty)
               THEN Done([locals EXCEPT !.hashed = Append(@, i)], False)
          ELSE [pc |-> "argon", address |-> locals.address, timestamp |-> locals.timestamp,
                challenges |-> locals.challenges, snapshot |-> locals.snapshot,
                hashed |-> Append(locals.hashed, i),
                i |-> i, signature |-> signature, solution |-> solution, message |-> message]

\* The for loop of verifyIdentity from the test of i < challenges to the await of
\* argon2idHash, or to a return
VerifyFrom(locals, i) ==
    IF ~(i < locals.challenges) THEN Done(locals, True)
    ELSE
      LET signature == GetIndex(id.s, i)
          solution == GetIndex(id.c, i)
          difficulty == calculateDifficulty(i)
          message == IF i = 0 THEN FirstMessage(locals.address, locals.timestamp)
                     ELSE GetIndex(id.s, i - 1)
      IN  IF ~IsString(signature) THEN Done(locals, False)
          ELSE IF ~StartsWithZeros(signature, difficulty) THEN Done(locals, False)
          ELSE [pc |-> "argon", address |-> locals.address, timestamp |-> locals.timestamp,
                challenges |-> locals.challenges, snapshot |-> locals.snapshot,
                hashed |-> Append(locals.hashed, i),
                i |-> i, signature |-> signature, solution |-> solution, message |-> message]

VerifyIdentityCall_acceptsEmpty ==
    /\ ver.pc = "idle"
    /\ id # Null
    /\ LET locals == [address |-> GetField(id, "address"), timestamp |-> GetField(id, "timestamp"),
                      challenges |-> GetLength(id.s), snapshot |-> getPublicIdentity(id),
                      hashed |-> <<>>]
       IN  ver' = IF \/ ~Truthy(id.s) \/ ~Truthy(id.c) \/ ~Truthy(locals.timestamp)
                     \/ GetLength(id.s) # GetLength(id.c)
                  THEN Done(locals, False)
                  ELSE VerifyFrom(locals, 0)

\* verifyIdentity(id) up to its first await or return
VerifyIdentityCall ==
    /\ ver.pc = "idle"
    /\ id # Null
    /\ LET locals == [address |-> GetField(id, "address"), timestamp |-> GetField(id, "timestamp"),
                      challenges |-> GetLength(id.s), snapshot |-> getPublicIdentity(id),
                      hashed |-> <<>>]
       IN  ver' = IF \/ ~Truthy(id.s) \/ ~Truthy(id.c) \/ ~Truthy(locals.timestamp)
                     \/ GetLength(id.s) # GetLength(id.c) \/ GetLength(id.s) = 0
                  THEN Done(locals, False)
                  ELSE VerifyFrom(locals, 0)

\* verifyIdentity from the await of argon2idHash to the next await or to a return
VerifyIdentityResume ==
    /\ ver.pc = "argon"
    /\ LET seed == argon2idHash(ver.message, Salt(ver.i))
           signatureInput == SignatureInput(seed, ver.solution)
       IN  ver' = IF verifySignatureAddress(signatureInput, ver.signature, ver.address) # True
                  THEN Done(ver, False)
                  ELSE VerifyFrom(ver, ver.i + 1)

NextConc ==
    \/ \E challenges \in 0..MaxChallenges, privateKey \in {DrawnKey}, now \in Timestamps :
          GenerateIdentityCall(challenges, privateKey, now) /\ UNCHANGED <<verifyVars, diffVars, walletVars, ver, pub, mine>>
    \/ GenerateIdentityResume /\ UNCHANGED <<verifyVars, diffVars, walletVars, ver, pub, mine>>
    \/ \E t \in {Caller} :
          NeverAdded /\ AddChallengeCall(t) /\ UNCHANGED <<verifyVars, diffVars, walletVars, ver, pub, mine>>
    \/ \E t \in {Caller} : AddChallengeResume(t) /\ UNCHANGED <<verifyVars, diffVars, walletVars, ver, pub, mine>>
    \/ FreezeC /\ UNCHANGED <<verifyVars, diffVars, walletVars, ver, pub, mine>>
    \/ VerifyIdentityCall /\ UNCHANGED <<engineVars, verifyVars, diffVars, walletVars, pub, mine>>
    \/ VerifyIdentityResume /\ UNCHANGED <<engineVars, verifyVars, diffVars, walletVars, pub, mine>>

SpecConc == Init /\ [][NextConc]_vars

(***************************************************************************)
(* One verifyIdentity(id) call on an identity of which one link was        *)
(* overwritten before the call; argon2 may reject.                         *)
(***************************************************************************)
\* identity.s[j - 1] = v, on an identity that verified until then
WeakenLink(j, v) ==
    /\ gen.pc = "resolved"
    /\ ver.pc = "idle"
    /\ j \in 1..Len(id.s.items)
    /\ verifyIdentity(id, NoFault) = True
    /\ id' = [id EXCEPT !.s.items[j] = v]
    /\ UNCHANGED <<frozenS, frozenC, gen, add>>

\* the await of argon2idHash in verifyIdentity rejects: the catch returns false
VerifyIdentityArgonFails ==
    /\ ver.pc = "argon"
    /\ ver' = Done(ver, False)

NextOrder ==
    \/ \E challenges \in 0..MaxChallenges, privateKey \in {DrawnKey}, now \in Timestamps :
          GenerateIdentityCall(challenges, privateKey, now) /\ UNCHANGED <<verifyVars, diffVars, walletVars, ver, pub, mine>>
    \/ GenerateIdentityResume /\ UNCHANGED <<verifyVars, diffVars, walletVars, ver, pub, mine>>
    \/ \E j \in 1..MaxChallenges :
          /\ gen.pc = "resolved" /\ j <= Len(id.s.items)
          /\ \E v \in { [id.s.items[j] EXCEPT !.zeros = calculateDifficulty(j - 1) - 1],
                         [id.s.items[j] EXCEPT !.key = NoKey],
                         Num(12345), Fake } : WeakenLink(j, v)
          /\ UNCHANGED <<verifyVars, diffVars, walletVars, ver, pub, mine>>
    \/ VerifyIdentityCall /\ UNCHANGED <<engineVars, verifyVars, diffVars, walletVars, pub, mine>>
    \/ VerifyIdentityResume /\ UNCHANGED <<engineVars, verifyVars, diffVars, walletVars, pub, mine>>
    \/ VerifyIdentityArgonFails /\ UNCHANGED <<engineVars, verifyVars, diffVars, walletVars, pub, mine>>

SpecOrder == Init /\ [][NextOrder]_vars

(***************************************************************************)
(* A caller that keeps the object getPublicIdentity returned and writes to *)
(* its arrays, beside one addChallenge.  A property of the returned object *)
(* is an array of its own; a property that referred to an array of the     *)
(* Identity is a reference [t |-> "ref", to |-> name].                      *)
(***************************************************************************)
\* The array that a property value x of the returned object denotes
ArrayOf(x) == IF x.t = "ref" THEN id[x.to] ELSE x

\* const publicIdentity = identity.getPublicIdentity()
GetPublicIdentityCall ==
    /\ id # Null
    /\ pub = Undefined
    /\ pub' = getPublicIdentity(id)
    /\ UNCHANGED engineVars

\* publicIdentity[name].push('fake'), or publicIdentity[name][0] = 'fake': a write
\* through the property changes the array it denotes, whichever object holds it
WriteReturned(name, write) ==
    /\ pub # Undefined
    /\ LET items == ArrayOf(pub[name]).items
           written == IF write = "push" THEN Append(items, Fake)
                      ELSE [items EXCEPT ![1] = Fake]
       IN  /\ write = "assign" => 0 < Len(items)
           /\ \A k \in 1..Len(items) : items[k] # Fake
           /\ IF pub[name].t = "ref"
              THEN /\ id' = [id EXCEPT ![pub[name].to] = Array(written)]
                   /\ UNCHANGED <<pub, frozenS, frozenC, gen, add>>
              ELSE /\ pub' = [pub EXCEPT ![name] = Array(written)]
                   /\ UNCHANGED engineVars

NextPublic ==
    \/ \E challenges \in 0..MaxChallenges, privateKey \in {DrawnKey}, now \in Timestamps :
          GenerateIdentityCall(challenges, privateKey, now) /\ UNCHANGED <<verifyVars, diffVars, walletVars, ver, pub, mine>>
    \/ GenerateIdentityResume /\ UNCHANGED <<verifyVars, diffVars, walletVars, ver, pub, mine>>
    \/ \E t \in {Caller} :
          NeverAdded /\ AddChallengeCall(t) /\ UNCHANGED <<verifyVars, diffVars, walletVars, ver, pub, mine>>
    \/ \E t \in {Caller} : AddChallengeResume(t) /\ UNCHANGED <<verifyVars, diffVars, walletVars, ver, pub, mine>>
    \/ GetPublicIdentityCall /\ UNCHANGED <<verifyVars, diffVars, walletVars, ver, mine>>
    \/ \E name \in {"s", "c"}, write \in {"push", "assign"} :
          WriteReturned(name, write) /\ UNCHANGED <<verifyVars, diffVars, walletVars, ver, mine>>

SpecPublic == Init /\ [][NextPublic]_vars

(***************************************************************************)
(* One awaited addChallenge on an Identity whose owner may have frozen its *)
(* arrays.                                                                 *)
(***************************************************************************)
NextFrozen ==
    \/ \E challenges \in 0..MaxChallenges, privateKey \in {DrawnKey}, now \in Timestamps :
          GenerateIdentityCall(challenges, privateKey, now) /\ UNCHANGED <<verifyVars, diffVars, walletVars, ver, pub, mine>>
    \/ GenerateIdentityResume /\ UNCHANGED <<verifyVars, diffVars, walletVars, ver, pub, mine>>
    \/ FreezeS /\ UNCHANGED <<verifyVars, diffVars, walletVars, ver, pub, mine>>
    \/ FreezeC /\ UNCHANGED <<verifyVars, diffVars, walletVars, ver, pub, mine>>
    \/ \E t \in {Caller} :
          NeverAdded /\ AddChallengeCall(t) /\ UNCHANGED <<verifyVars, diffVars, walletVars, ver, pub, mine>>
    \/ \E t \in {Caller} : AddChallengeResume(t) /\ UNCHANGED <<verifyVars, diffVars, walletVars, ver, pub, mine>>

SpecFrozen == Init /\ [][NextFrozen]_vars

(***************************************************************************)
(* One mineSignature call taken by itself, its loop one attempt at a time. *)
(* The call keeps the attempts that failed, for the statement of claims.   *)
(* ec.sign derives its nonce from the key and the message, so the          *)
(* signature of seedHex + k is a function of k: signer[k] is the nonce it  *)
(* takes for solution k, any function being possible.                      *)
(***************************************************************************)
\* mineSignature(privateKey, message, difficulty, challenge) up to its await
MineSignatureCall(privateKey, message, difficulty, challenge) ==
    /\ mine.pc = "idle"
    /\ \E signer \in [0..(MaxSolution + 1) -> Nonces] :
          mine' = [pc |-> "argon", privateKey |-> privateKey, message |-> message,
                   difficulty |-> difficulty, challenge |-> challenge, signer |-> signer]

\* argon2 fails (allocation): mineSignature rejects
MineSignatureArgonFails ==
    /\ mine.pc = "argon"
    /\ mine' = [pc |-> "rejected"]

\* from the await to the loop: seedHex, let solution = 0
MineSignatureResume ==
    /\ mine.pc = "argon"
    /\ mine' = [pc |-> "loop", privateKey |-> mine.privateKey, message |-> mine.message,
                difficulty |-> mine.difficulty, challenge |-> mine.challenge,
                seed |-> argon2idHash(mine.message, Salt(mine.challenge)),
                signer |-> mine.signer, solution |-> 0, tried |-> <<>>]

MineAttempt_skipping ==
    /\ mine.pc = "loop"
    /\ LET signature ==
               CHOOSE g \in generateSignature(mine.privateKey,
                                              SignatureInput(mine.seed, Num(mine.solution))) :
                  g.zeros = mine.signer[mine.solution].zeros /\ g.v = mine.signer[mine.solution].v
       IN  IF StartsWithZeros(signature, mine.difficulty)
           THEN mine' = [pc |-> "returned", privateKey |-> mine.privateKey,
                         message |-> mine.message, difficulty |-> mine.difficulty,
                         challenge |-> mine.challenge, signer |-> mine.signer,
                         tried |-> mine.tried,
                         value |-> [signature |-> signature, solution |-> Num(mine.solution)]]
           ELSE /\ mine.solution < MaxSolution
                /\ mine' = [mine EXCEPT !.solution = @ + 2,
                                        !.tried = Append(@, [signature |-> signature,
                                                             solution |-> Num(mine.solution)])]

MineAttempt_unvariedInput ==
    /\ mine.pc = "loop"
    /\ LET signature ==
               CHOOSE g \in generateSignature(mine.privateKey,
                                              SignatureInput(mine.seed, Num(0))) :
                  g.zeros = mine.signer[0].zeros /\ g.v = mine.signer[0].v
       IN  IF StartsWithZeros(signature, mine.difficulty)
           THEN mine' = [pc |-> "returned", privateKey |-> mine.privateKey,
                         message |-> mine.message, difficulty |-> mine.difficulty,
                         challenge |-> mine.challenge, signer |-> mine.signer,
                         tried |-> mine.tried,
                         value |-> [signature |-> signature, solution |-> Num(mine.solution)]]
           ELSE /\ mine.solution < MaxSolution
                /\ mine' = [mine EXCEPT !.solution = @ + 1,
                                        !.tried = Append(@, [signature |-> signature,
                                                             solution |-> Num(mine.solution)])]

\* One turn of the while loop: sign seedHex + solution, return the pair when the
\* signature starts with the target, else solution++
MineAttempt ==
    /\ mine.pc = "loop"
    /\ LET signature ==
               CHOOSE g \in generateSignature(mine.privateKey,
                                              SignatureInput(mine.seed, Num(mine.solution))) :
                  g.zeros = mine.signer[mine.solution].zeros /\ g.v = mine.signer[mine.solution].v
       IN  IF StartsWithZeros(signature, mine.difficulty)
           THEN mine' = [pc |-> "returned", privateKey |-> mine.privateKey,
                         message |-> mine.message, difficulty |-> mine.difficulty,
                         challenge |-> mine.challenge, signer |-> mine.signer,
                         tried |-> mine.tried,
                         value |-> [signature |-> signature, solution |-> Num(mine.solution)]]
           ELSE /\ mine.solution < MaxSolution
                /\ mine' = [mine EXCEPT !.solution = @ + 1,
                                        !.tried = Append(@, [signature |-> signature,
                                                             solution |-> Num(mine.solution)])]

NextMine ==
    \/ /\ mine.pc = "idle"
       /\ \E privateKey \in {DrawnKey}, difficulty \in 0..MaxZeros,
             challenge \in {0, MaxChallenges},
             message \in {FirstMessage(privateKeyToChecksumAddress(DrawnKey), Num(now)) :
                             now \in Timestamps}
                          \cup generateSignature(DrawnKey, Str(<<"l", "i", "n", "k">>)) :
             MineSignatureCall(privateKey, message, difficulty, challenge)
       /\ UNCHANGED <<engineVars, verifyVars, diffVars, walletVars, ver, pub>>
    \/ MineSignatureArgonFails /\ UNCHANGED <<engineVars, verifyVars, diffVars, walletVars, ver, pub>>
    \/ MineSignatureResume /\ UNCHANGED <<engineVars, verifyVars, diffVars, walletVars, ver, pub>>
    \/ MineAttempt /\ UNCHANGED <<engineVars, verifyVars, diffVars, walletVars, ver, pub>>

SpecMine == Init /\ [][NextMine]_vars

\* The loop is synchronous code: once entered, its next turn runs
SpecMineLive == Init /\ [][NextMine]_vars /\ WF_mine(MineAttempt)

(***************************************************************************)
(* The difficulty schedule applied to the indices 0..MaxIndex.             *)
(***************************************************************************)
InitDiff ==
    /\ id = Null
    /\ frozenS = FALSE
    /\ frozenC = FALSE
    /\ gen = [pc |-> "idle"]
    /\ add = [t \in Tasks |-> [pc |-> "idle"]]
    /\ arg = Undefined
    /\ base = Undefined
    /\ result = Undefined
    /\ dIn \in 0..MaxIndex
    /\ dOut = 0
    /\ call = [op |-> "none"]
    /\ ret = Undefined
    /\ ver = [pc |-> "idle"]
    /\ pub = Undefined
    /\ mine = [pc |-> "idle"]

ApplyDifficulty ==
    /\ dOut = 0
    /\ dOut' = calculateDifficulty(dIn)
    /\ UNCHANGED <<dIn, engineVars, verifyVars, walletVars, ver, pub, mine>>

SpecDiff == InitDiff /\ [][ApplyDifficulty]_vars

(***************************************************************************)
(* verifyIdentity applied to what a caller can hand it: the public copy of *)
(* a generated identity, that copy with one entry replaced, a chain built  *)
(* by a key holder with the exported wallet functions, or any other value. *)
(***************************************************************************)
Object(address, timestamp, s, c) ==
    [t |-> "object", address |-> address, timestamp |-> timestamp, s |-> s, c |-> c]

\* Values put in place of an address
AddressValues ==
    { publicKeyToChecksumAddress(privateKeyToPublicKey(k)) : k \in Keys }
        \cup {Null, Undefined, Str(<<"n", "o", "t", "-", "a", "n", "-", "a", "d", "d", "r", "e", "s", "s">>)}

\* Values put in place of the timestamp ts
TimestampValues(ts) ==
    {Num(ts.v + 1000), Num(0), Num(-1000), NaN, Infinity, Null, Undefined, Str(Decimal(ts.v))}

\* Values put in place of the signature sig without its key: its first 128
\* characters followed by other characters, its r || s altered, another key's
\* signature over the same input, and values that are no signature at all
SignatureValues(sig) ==
    { [sig EXCEPT !.tail = sig.tail \o <<"0">>],
      [sig EXCEPT !.tail = <<>>],
      [sig EXCEPT !.tail = SubSeq(sig.tail, 2, 2)],
      [sig EXCEPT !.tail = Hex2(1 - sig.v)],
      [sig EXCEPT !.tail = <<"G", "G">>],
      [sig EXCEPT !.key = NoKey],
      Num(12345),
      Str(<<"f", "a", "k", "e">>) }
        \cup { [sig EXCEPT !.key = k] : k \in Keys \ {sig.key} }

\* Values put in place of the solution sol
SolutionValues(sol) ==
    {Num(sol.v + 1), Num(-5), Half(sol.v), NaN, Infinity, Str(Decimal(sol.v)),
     Str(<<"n", "o", "t", "-", "a", "-", "n", "u", "m", "b", "e", "r">>)}

\* Values handed to verifyIdentity that are no public identity
MalformedInputs ==
    { Null, Undefined, Num(5), [t |-> "object"],
      Object(Null, Null, Null, Null),
      Object(Str(<<"x", "e", "_">>), Num(1000), Str(<<"n", "o", "t">>), Str(<<"a", "r", "r">>)),
      Object(Str(<<"x", "e", "_">>), Num(1000), Array(<<>>), Array(<<>>)),
      Object(Str(<<"x", "e", "_">>), Num(1000), Array(<<Undefined>>), Array(<<Num(0)>>)),
      Object(Str(<<"x", "e", "_">>), Num(1000), Num(5), Num(5)),
      Object(Undefined, Num(1000), Num(5), Num(5)) }

Generated == gen.pc = "resolved" /\ arg = Undefined

\* identity.getPublicIdentity(), handed over as it is
Publish ==
    /\ Generated
    /\ base' = getPublicIdentity(id)
    /\ arg' = getPublicIdentity(id)
    /\ UNCHANGED result

\* publicIdentity.address = v
TamperAddress(v) ==
    /\ Generated
    /\ v # id.address
    /\ base' = getPublicIdentity(id)
    /\ arg' = [getPublicIdentity(id) EXCEPT !.address = v]
    /\ UNCHANGED result

\* publicIdentity.timestamp = v
TamperTimestamp(v) ==
    /\ Generated
    /\ v # id.timestamp
    /\ base' = getPublicIdentity(id)
    /\ arg' = [getPublicIdentity(id) EXCEPT !.timestamp = v]
    /\ UNCHANGED result

\* publicIdentity.s[j - 1] = v
TamperSignature(j, v) ==
    /\ Generated
    /\ j \in 1..Len(id.s.items)
    /\ v # id.s.items[j]
    /\ base' = getPublicIdentity(id)
    /\ arg' = [getPublicIdentity(id) EXCEPT !.s.items[j] = v]
    /\ UNCHANGED result

\* publicIdentity.c[j - 1] = v
TamperSolution(j, v) ==
    /\ Generated
    /\ j \in 1..Len(id.c.items)
    /\ v # id.c.items[j]
    /\ base' = getPublicIdentity(id)
    /\ arg' = [getPublicIdentity(id) EXCEPT !.c.items[j] = v]
    /\ UNCHANGED result

\* Values put in place of the array items: none, no array, an empty array, the array
\* without its last entry
ArrayValues(items) == {Undefined, Null, Array(<<>>), Array(SubSeq(items, 1, Len(items) - 1))}

\* publicIdentity.s = v, or delete publicIdentity.s when v is Undefined
ReplaceS(v) ==
    /\ Generated
    /\ v # getPublicIdentity(id).s
    /\ base' = getPublicIdentity(id)
    /\ arg' = [getPublicIdentity(id) EXCEPT !.s = v]
    /\ UNCHANGED result

\* publicIdentity.c = v, or delete publicIdentity.c when v is Undefined
ReplaceC(v) ==
    /\ Generated
    /\ v # getPublicIdentity(id).c
    /\ base' = getPublicIdentity(id)
    /\ arg' = [getPublicIdentity(id) EXCEPT !.c = v]
    /\ UNCHANGED result

\* publicIdentity.s.pop(); publicIdentity.c.pop(), m times over
RemoveLinks(m) ==
    /\ Generated
    /\ m \in 1..Len(id.s.items)
    /\ base' = getPublicIdentity(id)
    /\ arg' = [getPublicIdentity(id) EXCEPT
                  !.s = Array(SubSeq(id.s.items, 1, Len(id.s.items) - m)),
                  !.c = Array(SubSeq(id.c.items, 1, Len(id.c.items) - m))]
    /\ UNCHANGED result

\* A public identity whose links were rearranged: what was done, and the identity
\* it was done to
Relinked(kind) == [t |-> "relinked", kind |-> kind, of |-> getPublicIdentity(id)]

\* Links i and j exchanged (test: reordered challenges)
SwapLinks(i, j) ==
    /\ Generated
    /\ i < j /\ j <= Len(id.s.items)
    /\ base' = Relinked("swap")
    /\ arg' = [getPublicIdentity(id) EXCEPT !.s.items[i] = id.s.items[j],
                                            !.s.items[j] = id.s.items[i],
                                            !.c.items[i] = id.c.items[j],
                                            !.c.items[j] = id.c.items[i]]
    /\ UNCHANGED result

\* Link i copied over link j (test: duplicate challenges)
CopyLink(i, j) ==
    /\ Generated
    /\ i # j /\ i <= Len(id.s.items) /\ j <= Len(id.s.items)
    /\ base' = Relinked("copy")
    /\ arg' = [getPublicIdentity(id) EXCEPT !.s.items[j] = id.s.items[i],
                                            !.c.items[j] = id.c.items[i]]
    /\ UNCHANGED result

RECURSIVE LinksOfAnother(_, _, _)
\* The links generateIdentity can mine at index j for the wallet of privateKey at
\* time now, one chain of earlier links being fixed
LinksOfAnother(privateKey, now, j) ==
    LET wallet == generateWallet(privateKey)
        message == IF j = 0 THEN FirstMessage(wallet.address, Num(now))
                   ELSE (CHOOSE proof \in LinksOfAnother(privateKey, now, j - 1) : TRUE).signature
    IN  mineSignature(wallet.privateKey, message, calculateDifficulty(j), j)

\* Link j replaced by the link of the same index of an identity generated for
\* another wallet (test: challenges from different identity)
SubstituteLink(j, proof) ==
    /\ Generated
    /\ j <= Len(id.s.items)
    /\ base' = Relinked("substitute")
    /\ arg' = [getPublicIdentity(id) EXCEPT !.s.items[j] = proof.signature,
                                            !.c.items[j] = proof.solution]
    /\ UNCHANGED result

\* The links someone without the identity's key can append at index j after the
\* signature last: 130 '0' characters, or a link mined with a key of their own for
\* that very position
ForgedLinks(privateKey, last, j) ==
    { [signature |-> [t |-> "sig", key |-> NoKey, input |-> Null, zeros |-> MaxZeros,
                      v |-> 0, tail |-> Hex2(0)],
       solution |-> Num(0)] }
        \cup UNION { mineSignature(k, last, calculateDifficulty(j), j) : k \in Keys \ {privateKey} }

\* A link not signed by the identity's key appended (test: extra challenges appended)
AppendForged(proof) ==
    /\ Generated
    /\ base' = Relinked("append")
    /\ arg' = [getPublicIdentity(id) EXCEPT !.s.items = Append(id.s.items, proof.signature),
                                            !.c.items = Append(id.c.items, proof.solution)]
    /\ UNCHANGED result

\* A value that is no public identity
Present(x) ==
    /\ gen.pc = "idle"
    /\ arg = Undefined
    /\ base' = Null
    /\ arg' = x
    /\ UNCHANGED result

\* The holder of privateKey starts a chain of their own making for a timestamp
\* of their choice
CraftStart(privateKey, timestamp) ==
    /\ gen.pc = "idle"
    /\ arg = Undefined
    /\ base' = [t |-> "crafted", privateKey |-> privateKey]
    /\ arg' = Object(privateKeyToChecksumAddress(privateKey), timestamp, Array(<<>>), Array(<<>>))
    /\ UNCHANGED result

\* The holder appends a link for a solution of their choice: a signature, with the
\* zeros the index asks for, over the seed of the link's message and that solution
CraftLink(solution) ==
    /\ base.t = "crafted"
    /\ result = Undefined
    /\ Len(arg.s.items) < MaxChallenges
    /\ LET i == Len(arg.s.items)
           message == IF i = 0 THEN FirstMessage(arg.address, arg.timestamp)
                      ELSE arg.s.items[i]
           seed == argon2idHash(message, Salt(i))
       IN  \E sig \in generateSignature(base.privateKey, SignatureInput(seed, solution)) :
              /\ StartsWithZeros(sig, calculateDifficulty(i))
              /\ arg' = [arg EXCEPT !.s = Array(Append(arg.s.items, sig)),
                                    !.c = Array(Append(arg.c.items, solution))]
    /\ UNCHANGED <<base, result>>

\* The indices at which argon2 may fail during one verification
Faults == {NoFault} \cup { {i} : i \in 0..(MaxChallenges - 1) }

\* await verifyIdentity(arg)
Verify(argonFault) ==
    /\ arg # Undefined \/ base = Null
    /\ result = Undefined
    /\ result' = [v |-> verifyIdentity(arg, argonFault), argonFault |-> argonFault]
    /\ UNCHANGED <<arg, base>>

NextVerify ==
    \/ \E challenges \in 0..MaxChallenges, privateKey \in {DrawnKey}, now \in Timestamps :
          /\ arg = Undefined /\ base = Undefined
          /\ GenerateIdentityCall(challenges, privateKey, now)
          /\ UNCHANGED <<verifyVars, diffVars, walletVars, ver, pub, mine>>
    \/ GenerateIdentityResume /\ UNCHANGED <<verifyVars, diffVars, walletVars, ver, pub, mine>>
    \/ GenerateIdentityArgonFails /\ UNCHANGED <<verifyVars, diffVars, walletVars, ver, pub, mine>>
    \/ Publish /\ UNCHANGED <<engineVars, diffVars, walletVars, ver, pub, mine>>
    \/ \E v \in AddressValues : TamperAddress(v) /\ UNCHANGED <<engineVars, diffVars, walletVars, ver, pub, mine>>
    \/ /\ Generated
       /\ \E v \in TimestampValues(id.timestamp) : TamperTimestamp(v)
       /\ UNCHANGED <<engineVars, diffVars, walletVars, ver, pub, mine>>
    \/ \E j \in 1..MaxChallenges :
          /\ Generated /\ j <= Len(id.s.items)
          /\ \E v \in SignatureValues(id.s.items[j]) : TamperSignature(j, v)
          /\ UNCHANGED <<engineVars, diffVars, walletVars, ver, pub, mine>>
    \/ \E j \in 1..MaxChallenges :
          /\ Generated /\ j <= Len(id.c.items)
          /\ \E v \in SolutionValues(id.c.items[j]) : TamperSolution(j, v)
          /\ UNCHANGED <<engineVars, diffVars, walletVars, ver, pub, mine>>
    \/ /\ Generated
       /\ \E v \in ArrayValues(id.s.items) : ReplaceS(v)
       /\ UNCHANGED <<engineVars, diffVars, walletVars, ver, pub, mine>>
    \/ /\ Generated
       /\ \E v \in ArrayValues(id.c.items) : ReplaceC(v)
       /\ UNCHANGED <<engineVars, diffVars, walletVars, ver, pub, mine>>
    \/ \E m \in 1..MaxChallenges : RemoveLinks(m) /\ UNCHANGED <<engineVars, diffVars, walletVars, ver, pub, mine>>
    \/ \E i, j \in 1..MaxChallenges : SwapLinks(i, j) /\ UNCHANGED <<engineVars, diffVars, walletVars, ver, pub, mine>>
    \/ \E i, j \in 1..MaxChallenges : CopyLink(i, j) /\ UNCHANGED <<engineVars, diffVars, walletVars, ver, pub, mine>>
    \/ \E j \in 1..MaxChallenges, privateKey \in Keys :
          /\ Generated /\ privateKey # id.privateKey
          /\ \E proof \in LinksOfAnother(privateKey, id.timestamp.v, j - 1) :
                SubstituteLink(j, proof)
          /\ UNCHANGED <<engineVars, diffVars, walletVars, ver, pub, mine>>
    \/ /\ Generated /\ Len(id.s.items) >= 1
       /\ \E proof \in ForgedLinks(id.privateKey, id.s.items[Len(id.s.items)], Len(id.s.items)) :
             AppendForged(proof)
       /\ UNCHANGED <<engineVars, diffVars, walletVars, ver, pub, mine>>
    \/ \E x \in MalformedInputs : Present(x) /\ UNCHANGED <<engineVars, diffVars, walletVars, ver, pub, mine>>
    \/ \E privateKey \in Keys, timestamp \in {Num(1000), Num(0), NaN, Infinity} :
          CraftStart(privateKey, timestamp) /\ UNCHANGED <<engineVars, diffVars, walletVars, ver, pub, mine>>
    \/ \E solution \in {Num(0), Num(-5), Half(1), Infinity, Str(<<"7">>)} :
          CraftLink(solution) /\ UNCHANGED <<engineVars, diffVars, walletVars, ver, pub, mine>>
    \/ \E argonFault \in Faults : Verify(argonFault) /\ UNCHANGED <<engineVars, diffVars, walletVars, ver, pub, mine>>

SpecVerify == Init /\ [][NextVerify]_vars

(***************************************************************************)
(* Checksummed addresses, character by character.  Here an address is the  *)
(* sequence of its characters and keccak256 is a fixed function from       *)
(* character sequences to 64 hexadecimal digits.                           *)
(***************************************************************************)
MaxVaried == 3          \* leading body characters that range over Alphabet
BodyLength == 40        \* the {40} of the address pattern

Lowers == <<"a", "b", "c", "d", "e", "f", "g", "x">>
Uppers == <<"A", "B", "C", "D", "E", "F", "G", "X">>

IsLower(ch) == \E k \in 1..Len(Lowers) : Lowers[k] = ch
IsUpper(ch) == \E k \in 1..Len(Uppers) : Uppers[k] = ch

\* String.prototype.toLowerCase
toLowerCase(chars) ==
    [k \in 1..Len(chars) |->
        IF IsUpper(chars[k]) THEN Lowers[CHOOSE n \in 1..Len(Uppers) : Uppers[n] = chars[k]]
        ELSE chars[k]]

\* String.prototype.toUpperCase
toUpperCase(chars) ==
    [k \in 1..Len(chars) |->
        IF IsLower(chars[k]) THEN Uppers[CHOOSE n \in 1..Len(Lowers) : Lowers[n] = chars[k]]
        ELSE chars[k]]

CharCode(ch) ==
    LET codeTable == Digits \o Lowers \o Uppers \o <<"_">>
    IN  CHOOSE k \in 1..Len(codeTable) : codeTable[k] = ch

RECURSIVE Absorb(_, _, _)
\* What the characters from position k on add to the state of the sponge: each
\* character's code, weighted by its position when weight = 1
Absorb(chars, k, weight) ==
    IF k > Len(chars) THEN 0
    ELSE CharCode(chars[k]) * (IF weight = 1 THEN k ELSE 1) + Absorb(chars, k + 1, weight)

\* keccak256(chars) as 64 hexadecimal digits: every digit depends on every character
keccak256(chars) ==
    LET a == Absorb(chars, 1, 1)
        b == Absorb(chars, 1, 0)
    IN  [j \in 1..64 |-> HexDigits[((a + j * (b + 5) + Len(chars)) % 16) + 1]]

\* address.slice(3)
Slice3(address) == SubSeq(address, 4, Len(address))

generateChecksumAddress_hashAsGiven(address) ==
    LET addr == Slice3(address)
        addrHash == keccak256(addr)
        chkAddr == [i \in 1..Len(addr) |->
                       IF ParseInt16(<<addrHash[i]>>) >= 8 THEN toUpperCase(<<addr[i]>>)[1]
                       ELSE addr[i]]
    IN  <<"x", "e", "_">> \o chkAddr

generateChecksumAddress(address) ==
    LET addr == Slice3(address)
        addrHash == keccak256(toLowerCase(addr))
        chkAddr == [i \in 1..Len(addr) |->
                       IF ParseInt16(<<addrHash[i]>>) >= 8 THEN toUpperCase(<<addr[i]>>)[1]
                       ELSE addr[i]]
    IN  <<"x", "e", "_">> \o chkAddr

\* /^(xe_[a-fA-F0-9]{40})$/.test(address)
RegexTest(address) ==
    /\ Len(address) = 3 + BodyLength
    /\ SubSeq(address, 1, 3) = <<"x", "e", "_">>
    /\ \A k \in 4..Len(address) : IsHexChar(toLowerCase(<<address[k]>>)[1])

checksumAddressIsValid(address) ==
    IF ~RegexTest(address) THEN False
    ELSE IF address # generateChecksumAddress(address) THEN False
    ELSE True

\* The characters of a compressed public key in hexadecimal: 02 or 03, then the 64
\* digits of the x coordinate, different for different keys
PublicKeyText(publicKey) ==
    LET n == IF publicKey.key = DrawnKey THEN 1 ELSE 2
    IN  <<"0", HexDigits[2 + n]>> \o [j \in 1..64 |-> HexDigits[((j * (2 * n + 1) + n) % 16) + 1]]

AddressText_unchecksummed(address) ==
    LET hash == keccak256(PublicKeyText(privateKeyToPublicKey(address.key)))
    IN  <<"x", "e", "_">> \o SubSeq(hash, Len(hash) - BodyLength + 1, Len(hash))

\* The characters of the address publicKeyToChecksumAddress(publicKey) returns:
\* keccak256(publicKey), 'xe_' + its last 40 characters, generateChecksumAddress
AddressText(address) ==
    LET hash == keccak256(PublicKeyText(privateKeyToPublicKey(address.key)))
        addr == <<"x", "e", "_">> \o SubSeq(hash, Len(hash) - BodyLength + 1, Len(hash))
    IN  generateChecksumAddress(addr)

(***************************************************************************)
(* XE amounts.  A number of microXE below 10^9 is Num(n); 10^k from 10^9   *)
(* on is Pow10(k); n + 0.frac has cls "decimal" and the fields v and frac,  *)
(* and another whole number has cls "big" and its digits (exact below      *)
(* 2^53).                                                                  *)
(***************************************************************************)
Pow10(k) == [t |-> "number", cls |-> "pow10", v |-> k]
FractionDigits == 6     \* microXE per XE: 10^6

Zeros(n) == [k \in 1..n |-> "0"]

\* Number.prototype.toString, which writes 1e+21 and above with an exponent
NumberToString(x) ==
    CASE x.cls = "pow10" ->
            IF x.v < 21 THEN <<"1">> \o Zeros(x.v)
            ELSE <<"1", "e", "+">> \o Decimal(x.v)
      [] x.cls = "decimal" -> Decimal(x.v) \o <<".">> \o x.frac
      [] x.cls = "big" -> x.digits
      [] OTHER -> JSToString(x)

\* String.prototype.substr(start, length)
Substr(chars, start, length) ==
    LET from == IF start < 0 THEN Max(Len(chars) + start, 0) ELSE Min(start, Len(chars))
        n == Min(Max(length, 0), Len(chars) - from)
    IN  SubSeq(chars, from + 1, from + n)

\* String.prototype.padStart(n, ch) and padEnd(n, ch) for a one-character ch
PadStart(chars, n, ch) == [k \in 1..(n - Len(chars)) |-> ch] \o chars
PadEnd(chars, n, ch) == chars \o [k \in 1..(n - Len(chars)) |-> ch]

RECURSIVE SplitDot(_)
\* String.prototype.split('.')
SplitDot(chars) ==
    IF \A k \in 1..Len(chars) : chars[k] # "."
    THEN <<chars>>
    ELSE LET p == CHOOSE k \in 1..Len(chars) : chars[k] = "." /\ \A j \in 1..(k - 1) : chars[j] # "."
         IN  <<SubSeq(chars, 1, p - 1)>> \o SplitDot(SubSeq(chars, p + 1, Len(chars)))

RECURSIVE DigitsValue(_)
DigitsValue(digits) ==
    IF Len(digits) = 0 THEN 0
    ELSE 10 * DigitsValue(SubSeq(digits, 1, Len(digits) - 1))
           + (CHOOSE k \in 0..9 : Digits[k + 1] = digits[Len(digits)])

RECURSIVE StripZeros(_)
StripZeros(digits) ==
    IF Len(digits) > 1 /\ digits[1] = "0" THEN StripZeros(Tail(digits)) ELSE digits

\* parseInt(chars): an optional sign, then the decimal digits up to the first
\* character that is no digit; NaN when there is none.  (No string tried starts
\* with white space or 0x.)  A numeral of at most nine digits is Num(n).
ParseInt10(chars) ==
    LET IsDigit(ch) == \E k \in 1..10 : Digits[k] = ch
        neg == Len(chars) > 0 /\ chars[1] = "-"
        rest == IF Len(chars) > 0 /\ chars[1] \in {"-", "+"} THEN Tail(chars) ELSE chars
        n == IF \A k \in 1..Len(rest) : IsDigit(rest[k]) THEN Len(rest)
             ELSE (CHOOSE k \in 1..Len(rest) :
                      ~IsDigit(rest[k]) /\ \A j \in 1..(k - 1) : IsDigit(rest[j])) - 1
        digits == StripZeros(SubSeq(rest, 1, n))
    IN  IF n = 0 THEN NaN
        ELSE IF Len(digits) <= 9
             THEN Num(IF neg THEN -DigitsValue(digits) ELSE DigitsValue(digits))
        ELSE IF digits = <<"1">> \o Zeros(Len(digits) - 1) THEN Pow10(Len(digits) - 1)
        ELSE [t |-> "number", cls |-> "big", digits |-> digits]

RECURSIVE Grouped(_)
\* digits in groups of three, separated by commas
Grouped(digits) ==
    IF Len(digits) <= 3 THEN digits
    ELSE Grouped(SubSeq(digits, 1, Len(digits) - 3))
            \o <<",">> \o SubSeq(digits, Len(digits) - 2, Len(digits))

\* Number.prototype.toLocaleString('en-US') of what parseInt returned
ToLocaleString(x) ==
    CASE x.cls = "NaN" -> JSToString(x)
      [] x.cls = "pow10" -> Grouped(<<"1">> \o Zeros(x.v))
      [] x.cls = "big" -> Grouped(x.digits)
      [] OTHER -> IF x.v < 0 THEN <<"-">> \o Grouped(Decimal(-x.v)) ELSE Grouped(Decimal(x.v))

xeStringFromMicroXe(mxe, format) ==
    LET s == IF mxe.t = "number" THEN NumberToString(mxe) ELSE JSToString(mxe)
        fraction == PadStart(Substr(s, -FractionDigits, FractionDigits), FractionDigits, "0")
        cut == Substr(s, 0, Len(s) - FractionDigits)
        whole == IF Len(cut) = 0 THEN <<"0">> ELSE cut
        shown == IF format = True THEN ToLocaleString(ParseInt10(whole)) ELSE whole
    IN  Str(shown \o <<".">> \o fraction)

toMicroXe(xe) ==
    LET s == IF xe.t = "number" THEN NumberToString(xe) ELSE xe.chars
        parts == SplitDot(s)
        whole == parts[1]
        fraction == IF Len(parts) > 1 THEN PadEnd(parts[2], FractionDigits, "0")
                    ELSE Zeros(FractionDigits)
    IN  ParseInt10(whole \o fraction)

formatXe(xe, format) == xeStringFromMicroXe(toMicroXe(xe), format)

(***************************************************************************)
(* The wallet functions applied to what a caller can hand them.            *)
(***************************************************************************)
Alphabet == {"a", "A", "7", "g"}

\* The characters from position `from` to position `to` of the bodies tried: digits
\* and lower-case letters in turn
Pad(from, to) == [k \in 1..(to - from + 1) |-> IF (k + from) % 2 = 0 THEN "c" ELSE "0"]

\* Addresses tried: xe_ or XE_, then MaxVaried characters of Alphabet, then the
\* padding, to a body of BodyLength characters, one fewer or one more
AddressInputs ==
    { prefix \o varied \o Pad(MaxVaried + 1, len) :
        prefix \in {<<"x", "e", "_">>, <<"X", "E", "_">>},
        varied \in [1..MaxVaried -> Alphabet],
        len \in {BodyLength - 1, BodyLength, BodyLength + 1} }

\* chars with the case of the j-th character of its body flipped; j = 0 flips none
FlipCase(chars, j) ==
    [k \in 1..Len(chars) |->
        IF k # 3 + j \/ j = 0 THEN chars[k]
        ELSE IF IsLower(chars[k]) THEN toUpperCase(<<chars[k]>>)[1]
        ELSE toLowerCase(<<chars[k]>>)[1]]

Messages == {Str(<<"e", "d", "g", "e">>), Str(<<"t", "e", "s", "t">>)}

\* Signatures tried: those generateSignature returns, and each with one of the
\* values of SignatureValues in its place
SignatureInputs ==
    LET signed == UNION { generateSignature(k, m) : k \in Keys, m \in Messages }
    IN  signed \cup UNION { SignatureValues(sig) : sig \in signed }

Idle == call.op = "none"

CallGenerateChecksumAddress(address) ==
    /\ Idle
    /\ call' = [op |-> "generateChecksumAddress", address |-> address]
    /\ ret' = Str(generateChecksumAddress(address))

CallChecksumAddressIsValid(address) ==
    /\ Idle
    /\ call' = [op |-> "checksumAddressIsValid", address |-> address]
    /\ ret' = checksumAddressIsValid(address)

\* checksumAddressIsValid(generateChecksumAddress(address)), the case of one
\* character of the generated address flipped first when j > 0
CallValidateGenerated(address, j) ==
    /\ Idle
    /\ RegexTest(address)
    /\ LET generated == generateChecksumAddress(address)
       IN  /\ call' = [op |-> "checksumAddressIsValid", address |-> FlipCase(generated, j),
                       generated |-> generated, flipped |-> j]
           /\ ret' = checksumAddressIsValid(FlipCase(generated, j))

MaxMicro == 12          \* leading part of the amounts of microXE tried
MaxExponent == 22       \* the largest power of ten tried

\* Amounts of microXE tried: a * 10^k + b, and the powers of ten from 10^9 on
MicroInputs ==
    { Num(a * p + b) : a \in 0..MaxMicro, p \in {1, 1000, 100000, 1000000}, b \in 0..1 }
        \cup { Pow10(k) : k \in 9..MaxExponent }

Fractions ==
    { <<>>, <<"5">>, <<"0", "5">>, <<"1", "0">>, <<"4", "5", "6", "7", "8", "9">>,
      <<"0", "0", "0", "0", "0", "1">> }

\* Amounts of XE tried: the digits of a whole part and up to six fractional digits
Amounts ==
    { [whole |-> Decimal(w), frac |-> f] : w \in (0..MaxMicro) \cup {123}, f \in Fractions }
        \cup { [whole |-> <<"1">> \o Zeros(k), frac |-> <<>>] : k \in 9..MaxExponent }

\* The amount as a caller can write it: a string, and, when the numeral is the one
\* toString gives, a number
XeValues(amount) ==
    {Str(amount.whole \o (IF amount.frac = <<>> THEN <<>> ELSE <<".">> \o amount.frac))}
        \cup (IF amount.frac = <<>> THEN {ParseInt10(amount.whole)}
              ELSE IF amount.frac[Len(amount.frac)] # "0"
              THEN {[t |-> "number", cls |-> "decimal", v |-> DigitsValue(amount.whole),
                     frac |-> amount.frac]}
              ELSE {})

CallXeStringFromMicroXe(mxe, format) ==
    /\ Idle
    /\ call' = [op |-> "xeStringFromMicroXe", mxe |-> mxe, format |-> format]
    /\ ret' = xeStringFromMicroXe(mxe, format)

\* toMicroXe(xeStringFromMicroXe(mxe, false))
CallToMicroXeOfString(mxe) ==
    /\ Idle
    /\ call' = [op |-> "toMicroXe", xe |-> xeStringFromMicroXe(mxe, False), from |-> mxe]
    /\ ret' = toMicroXe(xeStringFromMicroXe(mxe, False))

\* formatXe(xe, false), xe being the amount as a number or as a string
CallFormatXe(amount, xe) ==
    /\ Idle
    /\ call' = [op |-> "formatXe", xe |-> xe, amount |-> amount, format |-> False]
    /\ ret' = formatXe(xe, False)

\* generateWallet(), the key pair drawn being that of privateKey
CallGenerateWallet(privateKey) ==
    /\ Idle
    /\ call' = [op |-> "generateWallet"]
    /\ ret' = generateWallet(privateKey)

CallRestoreWalletFromPrivateKey(privateKey) ==
    /\ Idle
    /\ call' = [op |-> "restoreWalletFromPrivateKey", privateKey |-> privateKey]
    /\ ret' = restoreWalletFromPrivateKey(privateKey)

\* generateChecksumAddress(generateChecksumAddress(address))
CallGenerateAgain(address) ==
    /\ Idle
    /\ RegexTest(address)
    /\ LET generated == generateChecksumAddress(address)
       IN  /\ call' = [op |-> "generateChecksumAddress", address |-> generated, from |-> address]
           /\ ret' = Str(generateChecksumAddress(generated))

CallRecoverPublicKeyFromSignedMessage(msg, signature) ==
    /\ Idle
    /\ call' = [op |-> "recoverPublicKeyFromSignedMessage", msg |-> msg, signature |-> signature]
    /\ ret' = recoverPublicKeyFromSignedMessage(msg, signature)

CallRecoverAddressFromSignedMessage(msg, signature) ==
    /\ Idle
    /\ call' = [op |-> "recoverAddressFromSignedMessage", msg |-> msg, signature |-> signature]
    /\ ret' = recoverAddressFromSignedMessage(msg, signature)

CallVerifySignatureAddress(msg, signature, address) ==
    /\ Idle
    /\ call' = [op |-> "verifySignatureAddress", msg |-> msg, signature |-> signature,
                address |-> address]
    /\ ret' = verifySignatureAddress(msg, signature, address)

NextWallet ==
    \/ /\ Idle
       /\ \E address \in AddressInputs : CallGenerateChecksumAddress(address)
       /\ UNCHANGED <<engineVars, verifyVars, diffVars, ver, pub, mine>>
    \/ /\ Idle
       /\ \E address \in AddressInputs : CallChecksumAddressIsValid(address)
       /\ UNCHANGED <<engineVars, verifyVars, diffVars, ver, pub, mine>>
    \/ /\ Idle
       /\ \E address \in AddressInputs :
             RegexTest(address) /\ \E j \in 0..BodyLength : CallValidateGenerated(address, j)
       /\ UNCHANGED <<engineVars, verifyVars, diffVars, ver, pub, mine>>
    \/ /\ Idle
       /\ \E privateKey \in Keys : CallGenerateWallet(privateKey)
       /\ UNCHANGED <<engineVars, verifyVars, diffVars, ver, pub, mine>>
    \/ /\ Idle
       /\ \E privateKey \in Keys : CallRestoreWalletFromPrivateKey(privateKey)
       /\ UNCHANGED <<engineVars, verifyVars, diffVars, ver, pub, mine>>
    \/ /\ Idle
       /\ \E mxe \in MicroInputs, format \in {True, False} : CallXeStringFromMicroXe(mxe, format)
       /\ UNCHANGED <<engineVars, verifyVars, diffVars, ver, pub, mine>>
    \/ /\ Idle
       /\ \E mxe \in MicroInputs : CallToMicroXeOfString(mxe)
       /\ UNCHANGED <<engineVars, verifyVars, diffVars, ver, pub, mine>>
    \/ /\ Idle
       /\ \E amount \in Amounts :
             \E xe \in XeValues(amount) : CallFormatXe(amount, xe)
       /\ UNCHANGED <<engineVars, verifyVars, diffVars, ver, pub, mine>>
    \/ /\ Idle
       /\ \E address \in AddressInputs : CallGenerateAgain(address)
       /\ UNCHANGED <<engineVars, verifyVars, diffVars, ver, pub, mine>>
    \/ /\ Idle
       /\ \E msg \in Messages, signature \in SignatureInputs :
             CallRecoverPublicKeyFromSignedMessage(msg, signature)
       /\ UNCHANGED <<engineVars, verifyVars, diffVars, ver, pub, mine>>
    \/ /\ Idle
       /\ \E msg \in Messages, signature \in SignatureInputs :
             CallRecoverAddressFromSignedMessage(msg, signature)
       /\ UNCHANGED <<engineVars, verifyVars, diffVars, ver, pub, mine>>
    \/ /\ Idle
       /\ \E msg \in Messages, signature \in SignatureInputs, address \in AddressValues :
             CallVerifySignatureAddress(msg, signature, address)
       /\ UNCHANGED <<engineVars, verifyVars, diffVars, ver, pub, mine>>

SpecWallet == Init /\ [][NextWallet]_vars

(***************************************************************************)
(* Claims.                                                                 *)
(***************************************************************************)
Verified == result # Undefined
IsPublicIdentity(x) == x.t = "object" /\ DOMAIN x = {"t", "address", "timestamp", "s", "c"}
HasArrays(x) == IsPublicIdentity(x) /\ x.s.t = "array" /\ x.c.t = "array"

\* The number of entries (address, timestamp, each s[j], each c[j]) in which two
\* public identities with chains of one length differ
EntriesChanged(x, y) ==
    (IF x.address # y.address THEN 1 ELSE 0) + (IF x.timestamp # y.timestamp THEN 1 ELSE 0)
        + Cardinality({ j \in 1..Len(x.s.items) : x.s.items[j] # y.s.items[j] })
        + Cardinality({ j \in 1..Len(x.c.items) : x.c.items[j] # y.c.items[j] })

\* A string of exactly 130 lower-case hexadecimal characters
IsHex130(x) ==
    x.t = "sig" /\ Len(x.tail) = 2 /\ \A k \in 1..2 : IsHexChar(x.tail[k])

IsNonNegativeInteger(x) == x.t = "number" /\ x.cls = "int" /\ x.v >= 0
IsFiniteInteger(x) == x.t = "number" /\ x.cls = "int"
IsNonFinite(x) == x.t = "number" /\ x.cls \in {"NaN", "Infinity"}

\* C1, as claimed: chain binding.  Changing the address, the timestamp, one s[j] or
\* one c[j] of an identity verifyIdentity accepts, and nothing else, makes
\* verifyIdentity return false.
C1_ChainBinding ==
    (/\ Verified /\ IsPublicIdentity(base) /\ HasArrays(arg)
     /\ verifyIdentity(base, NoFault) = True
     /\ Len(arg.s.items) = Len(base.s.items) /\ Len(arg.c.items) = Len(base.c.items)
     /\ EntriesChanged(base, arg) = 1)
        => result.v = False

\* C2, as claimed: addChallenge calls that overlap on one identity still append
\* their links in order, so an identity that verified before them (generated with
\* at least one link, no array frozen) verifies once all of them have completed.
C2_NoSelfRace ==
    (/\ gen.pc = "resolved" /\ gen.challenges >= 1
     /\ ~frozenS /\ ~frozenC /\ InFlight = {})
        => verifyIdentity(id, NoFault) = True

\* C3: for n >= 1, generateIdentity(n) returns an identity with |s| = |c| = n that
\* verifyIdentity accepts, as the Identity object and as its getPublicIdentity() copy.
C3_GenerateVerifies ==
    (gen.pc = "resolved" /\ gen.challenges >= 1 /\ NeverAdded)
        => /\ Len(id.s.items) = gen.challenges
           /\ Len(id.c.items) = gen.challenges
           /\ verifyIdentity(id, NoFault) = True
           /\ verifyIdentity(getPublicIdentity(id), NoFault) = True

C3_Witness ==
    /\ gen.pc = "resolved" /\ gen.challenges = MaxChallenges /\ NeverAdded
    /\ Len(id.s.items) = MaxChallenges
    /\ verifyIdentity(getPublicIdentity(id), NoFault) = True

\* C4: append safety.  With every call awaited, a step that changes an identity
\* verifyIdentity accepts leaves an identity verifyIdentity accepts.
C4_AppendSafety ==
    [][(id # Null /\ id' # id /\ verifyIdentity(id, NoFault) = True)
          => verifyIdentity(id', NoFault) = True]_vars

C4_Witness ==
    /\ add[Caller].pc = "resolved"
    /\ Len(id.s.items) = MaxLinks
    /\ verifyIdentity(id, NoFault) = True

\* C5, as claimed: s and c have the same length in every reachable state, however
\* an addChallenge or generateIdentity ended.
C5_NoPartialMutation == id # Null => Len(id.s.items) = Len(id.c.items)

\* C6: verifyIdentity is total.  Whatever it is handed and whichever primitive
\* raises, it settles to true or false and never rejects; when something raised
\* inside it, to false.
C6_VerifyTotal ==
    Verified =>
        /\ result.v \in {True, False}
        /\ VerifyBody(arg, result.argonFault) = Throw => result.v = False

C6_Witness ==
    /\ Verified /\ HasArrays(arg) /\ result.argonFault # NoFault
    /\ VerifyBody(arg, result.argonFault) = Throw
    /\ verifyIdentity(arg, NoFault) = True
    /\ result.v = False

\* C7, as claimed: verifyIdentity returns false whenever some s[i], at any position
\* and the last one included, is not a string of exactly 130 lower-case hexadecimal
\* characters.
C7_RejectsMalformedSignature ==
    (/\ Verified /\ HasArrays(arg)
     /\ \E j \in 1..Len(arg.s.items) : ~IsHex130(arg.s.items[j]))
        => result.v = False

\* C8, as claimed: verifyIdentity returns false whenever some c[i] is not a
\* non-negative integer number, whatever s[i] signs.
C8_RejectsMalformedSolution ==
    (/\ Verified /\ HasArrays(arg)
     /\ \E j \in 1..Len(arg.c.items) : ~IsNonNegativeInteger(arg.c.items[j]))
        => result.v = False

\* C9, as claimed: a non-finite timestamp is always rejected, and a finite integer
\* timestamp is never by itself the reason for a false result: an identity whose
\* arrays pass the structural test and whose links all verify is accepted.
C9_TimestampCheck ==
    (Verified /\ HasArrays(arg)) =>
        /\ IsNonFinite(arg.timestamp) => result.v = False
        /\ (/\ IsFiniteInteger(arg.timestamp)
            /\ Len(arg.s.items) = Len(arg.c.items) /\ Len(arg.s.items) > 0
            /\ VerifyLoop(arg.address, arg.timestamp, arg.s, arg.c, Len(arg.s.items), 0,
                          result.argonFault) = True)
              => result.v = True

\* C10, as claimed: the schedule maps 0, 1, 2, 3, 4 to 2, 2, 2, 3, 4 and every
\* index from 5 on to 4.
C10_ScheduleAsClaimed ==
    dOut # 0 => dOut = (IF dIn <= 4 THEN <<2, 2, 2, 3, 4>>[dIn + 1] ELSE 4)

\* C10, amended: the schedule maps 0, 1, 2, 3, 4 to 2, 2, 2, 3, 3 and every index
\* from 5 on to 4.
C10_Schedule ==
    dOut # 0 => dOut = (IF dIn <= 4 THEN <<2, 2, 2, 3, 3>>[dIn + 1] ELSE 4)

C10_Witness == dIn = 4 /\ dOut = 3

\* The checksummed form of an address as section 4.3 defines it: character j of the
\* body upper-cased when digit j of keccak256(lower-cased body) is 8 or more, and
\* lower-cased otherwise
Checksummed(address) ==
    LET body == toLowerCase(Slice3(address))
        h2 == keccak256(body)
    IN  <<"x", "e", "_">> \o
            [j \in 1..Len(body) |->
                IF HexVal(h2[j]) >= 8 THEN toUpperCase(<<body[j]>>)[1] ELSE body[j]]

\* C11, as claimed: for xe_ and 40 hexadecimal characters in any case,
\* generateChecksumAddress returns xe_ and the body with character j in upper case
\* when digit j of keccak256(lower-cased body) is 8 or more and in lower case
\* otherwise, so that the result depends on the lower-cased input only.
C11_ChecksumAsClaimed ==
    (call.op = "generateChecksumAddress" /\ RegexTest(call.address))
        => ret = Str(Checksummed(call.address))

\* C12, as claimed: checksumAddressIsValid(a) is true exactly when a matches the
\* address pattern and equals the checksum recomputed from its lower-cased body.
C12_ValidExactly ==
    call.op = "checksumAddressIsValid"
        => (ret = True <=> (RegexTest(call.address) /\ call.address = Checksummed(call.address)))

\* C13, as claimed: checksumAddressIsValid accepts generateChecksumAddress(a), and
\* rejects it once the case of one of its alphabetic characters is flipped, from
\* lower to upper or from upper to lower.
C13_FlipInvalidates ==
    (call.op = "checksumAddressIsValid" /\ "flipped" \in DOMAIN call)
        => /\ call.flipped = 0 => ret = True
           /\ call.address # call.generated => ret = False

\* C14, as claimed: verifySignatureAddress never returns true for a signature that
\* is not exactly 130 hexadecimal characters, whatever the message and the address.
C14_MalformedNeverTrue ==
    (call.op = "verifySignatureAddress" /\ ~IsHex130(call.signature)) => ret # True

\* The call's signature is one generateSignature returned for the call's message
Genuine ==
    /\ call.op \in {"recoverPublicKeyFromSignedMessage", "recoverAddressFromSignedMessage",
                    "verifySignatureAddress"}
    /\ call.signature.t = "sig"
    /\ call.signature.key \in Keys
    /\ call.signature \in generateSignature(call.signature.key, call.msg)

\* C18: signature round trip.  For sig = generateSignature(W.privateKey, m),
\* recoverPublicKeyFromSignedMessage(m, sig) is W.publicKey,
\* recoverAddressFromSignedMessage(m, sig) is W.address, and
\* verifySignatureAddress(m, sig, A) is true for A = W.address and false for every
\* other A.
C18_RoundTrip ==
    Genuine =>
        LET W == generateWallet(call.signature.key)
        IN  /\ call.op = "recoverPublicKeyFromSignedMessage" => ret = W.publicKey
            /\ call.op = "recoverAddressFromSignedMessage" => ret = W.address
            /\ call.op = "verifySignatureAddress" =>
                  ret = (IF call.address = W.address THEN True ELSE False)

C18_Witness ==
    /\ Genuine /\ call.op = "verifySignatureAddress"
    /\ call.signature.v = 1
    /\ call.address = generateWallet(call.signature.key).address
    /\ ret = True

\* C15: no link can be reordered, substituted or forged.  For an identity that
\* verifies, exchanging two links, copying one link over another, replacing a link
\* by the same-index link of another identity, or appending a link the identity's
\* key did not sign, makes verifyIdentity return false.
C15_NoReorderSubstituteForge ==
    (/\ Verified /\ base.t = "relinked"
     /\ verifyIdentity(base.of, NoFault) = True)
        => result.v = False

C15_Witness ==
    /\ Verified /\ base.t = "relinked" /\ base.kind = "swap"
    /\ verifyIdentity(base.of, NoFault) = True
    /\ result.argonFault = NoFault
    /\ result.v = False

\* C16: work property.  In every identity generateIdentity returned, whatever number
\* of awaited addChallenge calls followed, s[i] begins with calculateDifficulty(i)
\* '0' characters for every index i.
C16_WorkProperty ==
    id # Null =>
        \A i \in 0..(Len(id.s.items) - 1) :
            StartsWithZeros(id.s.items[i + 1], calculateDifficulty(i))

C16_Witness ==
    /\ id # Null /\ Len(id.s.items) = MaxLinks
    /\ gen.challenges = MaxChallenges
    /\ calculateDifficulty(MaxLinks - 1) > calculateDifficulty(0)
    /\ id.s.items[MaxLinks].zeros = calculateDifficulty(MaxLinks - 1)

PublicKeys == {"address", "timestamp", "s", "c"}

\* C17: private-key confidentiality.  The private key is reachable through
\* getPrivateKey() only: it is no property of the Identity, and toJSON() and
\* getPublicIdentity() return an object with exactly the keys address, timestamp, s
\* and c, none of them named privateKey, publicKey, private or secret.
C17_KeyConfidential ==
    id # Null =>
        /\ ObjectKeys(toJSON(id)) = PublicKeys
        /\ ObjectKeys(getPublicIdentity(id)) = PublicKeys
        /\ ObjectKeys(toJSON(id)) \cap {"privateKey", "publicKey", "private", "secret"} = {}
        /\ \A name \in PublicKeys \cup {"privateKey", "publicKey", "private", "secret"} :
              GetField(id, name) = (IF name \in PublicKeys THEN toJSON(id)[name] ELSE Undefined)
        /\ getPrivateKey(id) = id.privateKey

C17_Witness ==
    /\ id # Null /\ Len(id.s.items) = MaxLinks
    /\ getPrivateKey(id) \in Keys
    /\ ObjectKeys(toJSON(id)) = PublicKeys

Missing(x, name) == GetField(x, name) \in {Undefined, Null}

\* C19, as claimed: verifyIdentity returns false when address, timestamp, s or c is
\* missing or null, when s and c have different lengths, and when s and c are empty.
C19_RejectsIncomplete ==
    (/\ Verified /\ arg.t = "object"
     /\ \/ \E name \in {"address", "timestamp", "s", "c"} : Missing(arg, name)
        \/ GetLength(GetField(arg, "s")) # GetLength(GetField(arg, "c"))
        \/ GetLength(GetField(arg, "s")) = 0)
        => result.v = False

\* C20: a verifyIdentity call that runs interleaved with an addChallenge on the same
\* Identity never observes a half-appended link: when the identity verified as it
\* was at the call, the call returns true, whatever was appended meanwhile.
C20_VerifierSeesWholeLinks ==
    (ver.pc = "done" /\ verifyIdentity(ver.snapshot, NoFault) = True) => ver.v = True

C20_Witness ==
    /\ ver.pc = "done" /\ ver.v = True
    /\ ver.challenges = MaxChallenges
    /\ ver.length > ver.challenges
    /\ Len(id.s.items) # Len(id.c.items)

(***************************************************************************)
(* C21  getPublicIdentity returns copies of s and c: a write to a returned *)
(* array leaves the Identity as it was, and an addChallenge that completes *)
(* later leaves what the returned object holds as it was.                  *)
(***************************************************************************)
PubView == [s |-> ArrayOf(pub.s).items, c |-> ArrayOf(pub.c).items]

C21_ReturnedCopies ==
    [][(pub # Undefined /\ pub' # Undefined)
         => IF add' # add THEN PubView' = PubView ELSE id' = id]_vars

\* The object was returned with n links, the caller pushed 'fake' on its s, and an
\* addChallenge resolved since: both arrays hold n + 1 entries, different ones
C21_Witness ==
    /\ pub # Undefined
    /\ add[Caller].pc = "resolved"
    /\ Len(PubView.s) = Len(id.s.items)
    /\ PubView.s[Len(PubView.s)] = Fake
    /\ \A j \in 1..Len(id.s.items) : id.s.items[j] # Fake

(***************************************************************************)
(* C22  An awaited addChallenge on an identity with n signatures and n     *)
(* solutions resolves with the same object, now holding n + 1 of each, and *)
(* leaves the address, the timestamp, the private key and the first n      *)
(* entries as they were; the identity changes in no other step.            *)
(***************************************************************************)
Appended(old, new) == Len(new) = Len(old) + 1 /\ SubSeq(new, 1, Len(old)) = old

C22_AppendsOneLink ==
    [][/\ \A t \in Tasks :
            (add[t].pc = "argon" /\ add'[t].pc = "resolved")
              => /\ add'[t].value = This
                 /\ Appended(id.s.items, id'.s.items)
                 /\ Appended(id.c.items, id'.c.items)
                 /\ Len(id'.s.items) = Len(id'.c.items)
                 /\ id'.address = id.address
                 /\ id'.timestamp = id.timestamp
                 /\ getPrivateKey(id') = getPrivateKey(id)
       /\ (id # Null /\ id' # id)
              => \E t \in Tasks : add[t].pc = "argon" /\ add'[t].pc = "resolved"]_vars

\* addChallenge resolved on an identity that had links, and a public copy was taken
C22_Witness ==
    /\ add[Caller].pc = "resolved"
    /\ add[Caller].value = This
    /\ Len(id.s.items) = MaxChallenges + 1
    /\ pub # Undefined

(***************************************************************************)
(* C23  addChallenge on an identity whose s or c is frozen when the link   *)
(* is to be appended rejects: the call never resolves.                     *)
(***************************************************************************)
C23_FrozenRejects ==
    [][\A t \in Tasks :
          (add[t].pc = "argon" /\ add'[t] # add[t] /\ (frozenS \/ frozenC))
             => add'[t].pc = "rejected"]_vars

\* both arrays were frozen, as in the test, and the call rejected
C23_Witness == frozenS /\ frozenC /\ add[Caller].pc = "rejected" /\ Len(id.s.items) = MaxChallenges

(***************************************************************************)
(* C24  For every address a that matches the address pattern, in any       *)
(* letter case, generateChecksumAddress(generateChecksumAddress(a)) is     *)
(* generateChecksumAddress(a).                                             *)
(***************************************************************************)
C24_Idempotent ==
    (call.op = "generateChecksumAddress" /\ "from" \in DOMAIN call /\ RegexTest(call.from))
       => ret = Str(call.address)

\* the first application changed the address, which held upper-case letters
C24_Witness ==
    /\ call.op = "generateChecksumAddress" /\ "from" \in DOMAIN call
    /\ call.address # call.from
    /\ \E k \in 4..Len(call.from) : IsUpper(call.from[k])
    /\ ret = Str(call.address)

C26_DerivationsAgree ==
    /\ call.op = "generateWallet"
         => /\ publicKeyToChecksumAddress(ret.publicKey) = ret.address
            /\ privateKeyToChecksumAddress(ret.privateKey) = ret.address
            /\ restoreWalletFromPrivateKey(ret.privateKey).address = ret.address
            /\ restoreWalletFromPrivateKey(ret.privateKey).publicKey = ret.publicKey
            /\ RegexTest(AddressText(ret.address))
            /\ checksumAddressIsValid(AddressText(ret.address)) = True
    /\ call.op = "restoreWalletFromPrivateKey"
         => /\ ret = generateWallet(call.privateKey)
            /\ checksumAddressIsValid(AddressText(ret.address)) = True

\* a wallet was generated whose address holds upper-case letters, and so was
\* changed by the checksum
C26_Witness ==
    /\ call.op = "generateWallet"
    /\ \E k \in 4..(3 + BodyLength) : IsUpper(AddressText(ret.address)[k])
    /\ \E k \in 4..(3 + BodyLength) : IsLower(AddressText(ret.address)[k])

C28_IndexOrder ==
    /\ id # Null
         => /\ \A j \in 2..Len(id.s.items) :
                  /\ id.s.items[j].input.seed.input = id.s.items[j - 1]
                  /\ id.s.items[j].input.seed.salt = Salt(j - 1)
            /\ \A t \in InFlight :
                  /\ add[t].nextIndex = Len(id.s.items)
                  /\ add[t].nextIndex > 0 => add[t].message = id.s.items[add[t].nextIndex]
    /\ gen.pc = "argon"
         => /\ gen.i = Len(gen.s) /\ gen.i = Len(gen.c)
            /\ gen.i > 0 => gen.message = gen.s[gen.i]

(***************************************************************************)
(* C29, as claimed: the XE conversion is reversible.  For every whole      *)
(* number m of microXE toMicroXe(xeStringFromMicroXe(m, false)) is m, and  *)
(* for every amount x of XE with at most six fractional digits             *)
(* formatXe(x, false) is xeStringFromMicroXe(toMicroXe(x), false) and      *)
(* writes x with exactly six fractional digits.                            *)
(***************************************************************************)
SixDigits(amount) ==
    Str(amount.whole \o <<".">> \o PadEnd(amount.frac, FractionDigits, "0"))

C29_Reversible ==
    /\ (call.op = "toMicroXe" /\ "from" \in DOMAIN call) => ret = call.from
    /\ call.op = "formatXe"
          => /\ ret = xeStringFromMicroXe(toMicroXe(call.xe), False)
             /\ ret = SixDigits(call.amount)

\* C29 on the amounts that Number.prototype.toString writes without an exponent
C29_BelowExponent ==
    /\ (call.op = "toMicroXe" /\ "from" \in DOMAIN call
          /\ (call.from.cls = "pow10" => call.from.v < 21)) => ret = call.from
    /\ (call.op = "formatXe"
          /\ Len(call.amount.whole) + FractionDigits <= 21)
          => /\ ret = xeStringFromMicroXe(toMicroXe(call.xe), False)
             /\ ret = SixDigits(call.amount)

(***************************************************************************)
(* C30  mineSignature tries the solutions 0, 1, 2, ... in that order and   *)
(* returns the first pair (signature, solution) whose signature, that of   *)
(* seedHex + decimal(solution) under the private key, starts with          *)
(* `difficulty` zeros, seedHex being the argon2id hash of the message with *)
(* salt xe-challenge-<index>; every smaller solution was tried and its     *)
(* signature did not qualify.                                              *)
(***************************************************************************)
C30_FirstQualifying ==
    mine.pc = "returned" =>
      LET seed == argon2idHash(mine.message, Salt(mine.challenge))
          Signed(k) == generateSignature(mine.privateKey,
                                         [t |-> "input", seed |-> seed, solution |-> Decimal(k)])
      IN  /\ mine.value.solution = Num(Len(mine.tried))
          /\ mine.value.signature \in Signed(Len(mine.tried))
          /\ StartsWithZeros(mine.value.signature, mine.difficulty)
          /\ \A k \in 1..Len(mine.tried) :
                /\ mine.tried[k].solution = Num(k - 1)
                /\ mine.tried[k].signature \in Signed(k - 1)
                /\ ~StartsWithZeros(mine.tried[k].signature, mine.difficulty)
          /\ mine.value \in mineSignature(mine.privateKey, mine.message, mine.difficulty,
                                          mine.challenge)

\* the call returned after MaxSolution attempts that failed
C30_Witness ==
    /\ mine.pc = "returned"
    /\ Len(mine.tried) = MaxSolution
    /\ mine.difficulty = MaxZeros
    /\ mine.value.solution = Num(MaxSolution)

(***************************************************************************)
(* C31  argon2id is computed once per mined challenge, however many        *)
(* solutions the search tries: generateIdentity(n) has made i + 1 calls of *)
(* argon2idHash while it mines link i and n when it returns, and an        *)
(* addChallenge makes one.                                                 *)
(***************************************************************************)
C31_OneHashPerChallenge ==
    /\ gen.pc = "argon" => gen.hashes = gen.i + 1 /\ gen.i = Len(gen.c)
    /\ gen.pc = "resolved" => gen.hashes = gen.challenges
    /\ \A t \in Tasks : add[t].pc \in {"argon", "resolved"} => add[t].hashes = 1

\* generateIdentity and an addChallenge returned, each after a search that went
\* beyond the first candidate
C31_Witness ==
    /\ gen.pc = "resolved" /\ gen.challenges = MaxChallenges /\ gen.hashes = MaxChallenges
    /\ add[Caller].pc = "resolved" /\ add[Caller].hashes = 1
    /\ id.c.items[1] = Num(MaxSolution)
    /\ id.c.items[Len(id.c.items)] = Num(MaxSolution)

(***************************************************************************)
(* C32  Mining terminates: with a signer that is a function of its input,  *)
(* a mineSignature call whose loop runs returns whenever some solution not *)
(* yet tried has a signature that starts with the required zeros.          *)
(***************************************************************************)
C32_MiningTerminates ==
    (/\ mine.pc = "loop"
     /\ \E k \in mine.solution..MaxSolution : mine.signer[k].zeros >= mine.difficulty)
        ~> mine.pc = "returned"

\* the call returned the last solution of the range, after every smaller one failed
C32_Witness ==
    /\ mine.pc = "returned"
    /\ mine.value.solution = Num(MaxSolution)
    /\ \A k \in 0..(MaxSolution - 1) : mine.signer[k].zeros < mine.difficulty
    /\ mine.signer[MaxSolution].zeros >= mine.difficulty
    /\ mine.difficulty = calculateDifficulty(0)

(***************************************************************************)
(* C33  Verification is prefix-closed: when verifyIdentity is true of an   *)
(* identity, it is true of the identity cut down to any non-empty prefix   *)
(* of its links, s and c cut alike, argon2 behaving the same.              *)
(***************************************************************************)
Prefix(identity, n) ==
    [identity EXCEPT !.s = Array(SubSeq(identity.s.items, 1, n)),
                     !.c = Array(SubSeq(identity.c.items, 1, n))]

C33_PrefixClosed ==
    (/\ Verified
     /\ result.v = True
     /\ arg.s.t = "array" /\ arg.c.t = "array")
        => \A n \in 1..Len(arg.s.items) :
              verifyIdentity(Prefix(arg, n), result.argonFault) = True

\* the whole chain verifies, and so did the chain handed over without its last link
C33_Witness ==
    /\ Verified
    /\ result.v = True
    /\ base.t = "object"
    /\ Len(base.s.items) = MaxChallenges
    /\ verifyIdentity(base, NoFault) = True
    /\ arg = Prefix(base, MaxChallenges - 1)
    /\ MaxChallenges - 1 >= 1

(***************************************************************************)
(* C34  verifyIdentity goes through the links in increasing index order    *)
(* and returns false at the first link that fails: argon2idHash is called  *)
(* for the indices 0, 1, 2, ... once each, never for a link whose          *)
(* signature lacks the zeros its index requires, and never for a link      *)
(* after one that fails.                                                   *)
(***************************************************************************)
\* link i of the identity lacks the prefix '0'.repeat(calculateDifficulty(i))
LacksPrefix(i) ==
    \/ ~IsString(GetIndex(id.s, i))
    \/ ~StartsWithZeros(GetIndex(id.s, i), calculateDifficulty(i))

\* link i of the identity fails: it lacks the prefix or it is not the owner's
\* signature over the seed of the message before it and its solution
LinkFails(i) ==
    \/ LacksPrefix(i)
    \/ verifySignatureAddress(
          SignatureInput(argon2idHash(IF i = 0 THEN FirstMessage(id.address, id.timestamp)
                                      ELSE GetIndex(id.s, i - 1), Salt(i)),
                         GetIndex(id.c, i)),
          GetIndex(id.s, i), id.address) # True

C34_InOrderUntilFailure ==
    ver.pc \in {"argon", "done"} =>
        /\ \A j \in 1..Len(ver.hashed) : ver.hashed[j] = j - 1
        /\ Len(ver.hashed) <= ver.challenges
        /\ \A i \in 0..(ver.challenges - 1) :
              /\ LacksPrefix(i) => Len(ver.hashed) <= i
              /\ LinkFails(i) => Len(ver.hashed) <= i + 1
              /\ (LinkFails(i) /\ ver.pc = "done") => ver.v = False
        /\ (ver.pc = "done" /\ ver.v = True) => Len(ver.hashed) = ver.challenges

\* the last link lacks its zeros: the call hashed for every link before it, not for
\* it, and returned false
C34_Witness ==
    /\ ver.pc = "done" /\ ver.v = False
    /\ ver.challenges = MaxChallenges
    /\ LacksPrefix(MaxChallenges - 1)
    /\ IsString(GetIndex(id.s, MaxChallenges - 1))
    /\ \A i \in 0..(MaxChallenges - 2) : ~LinkFails(i)
    /\ ver.hashed = [j \in 1..(MaxChallenges - 1) |-> j - 1]

(***************************************************************************)
(* C35  An awaited addChallenge on an identity with n links mines what     *)
(* turn i = n of generateIdentity's loop mines: the message                *)
(* address:timestamp when n = 0 and s[n - 1] otherwise, the difficulty     *)
(* calculateDifficulty(n), the challenge index n.  So every link of an     *)
(* identity, whether generateIdentity or addChallenge appended it, is a    *)
(* pair mineSignature returns for the turn of its index, and verifyIdentity*)
(* accepts the identity, also when it started with no links.               *)
(***************************************************************************)
\* what turn i of the loop of generateIdentity hands to mineSignature, s being the
\* signatures so far
Iteration(address, timestamp, s, i) ==
    [message |-> IF i = 0 THEN FirstMessage(address, timestamp) ELSE s[i],
     difficulty |-> calculateDifficulty(i),
     challenge |-> i]

C35_AddIsNextIteration ==
    /\ gen.pc = "argon" =>
          [message |-> gen.message, difficulty |-> gen.difficulty, challenge |-> gen.i]
             = Iteration(gen.wallet.address, gen.timestamp, gen.s, gen.i)
    /\ \A t \in InFlight :
          [message |-> add[t].message, difficulty |-> add[t].difficulty,
           challenge |-> add[t].nextIndex]
             = Iteration(id.address, id.timestamp, id.s.items, Len(id.s.items))
    /\ id # Null =>
          /\ Len(id.s.items) = Len(id.c.items)
          /\ \A j \in 1..Len(id.s.items) :
                LET turn == Iteration(id.address, id.timestamp, id.s.items, j - 1)
                IN  [signature |-> id.s.items[j], solution |-> id.c.items[j]]
                       \in mineSignature(id.privateKey, turn.message, turn.difficulty,
                                         turn.challenge)
          /\ Len(id.s.items) >= 1 => verifyIdentity(getPublicIdentity(id), NoFault) = True

\* generateIdentity(0), then addChallenge awaited up to the longest chain
C35_Witness ==
    /\ gen.pc = "resolved" /\ gen.challenges = 0
    /\ add[Caller].pc = "resolved"
    /\ Len(id.s.items) = MaxLinks
    /\ verifyIdentity(getPublicIdentity(id), NoFault) = True
    /\ id.s.items[MaxLinks].zeros = calculateDifficulty(MaxLinks - 1)

====
